---- MODULE Spec2Model ----
(***************************************************************************)
(* A model of the labeled dense-array engine of ieeg/calc/mat.py:          *)
(* LabeledArray (a numeric buffer plus one Label Set per axis), its Labels *)
(* class and the indexing protocol (_parse_index, _to_coords, __getitem__, *)
(* __setitem__), together with the mapping bridge (from_dict, inner_array, *)
(* inner_all_keys) and the NaN-padding concatenator of ieeg/calc/fast.py.  *)
(* Buffers are flat row-major sequences with a shape; all positions are    *)
(* 0-based as in the source.                                               *)
(***************************************************************************)
EXTENDS Integers, Sequences, FiniteSets, TLC

VARIABLES arr, res, op, pre, gen, origin, path, arg

vars == <<arr, res, op, pre, gen, origin, path, arg>>

(***************************************************************************)
(* Bounds of the model.                                                    *)
(***************************************************************************)
MaxRank == 3
MaxExt == 2
MaxKeyLen == 3
MaxGen == 1

(***************************************************************************)
(* Generic helpers.                                                        *)
(***************************************************************************)
Max2(x, y) == IF x >= y THEN x ELSE y

SeqOf(n, f(_)) == [i \in 1..n |-> f(i)]

RECURSIVE Prod(_)
Prod(s) == IF s = <<>> THEN 1 ELSE Head(s) * Prod(Tail(s))

RECURSIVE Flatten(_)
Flatten(ss) == IF ss = <<>> THEN <<>> ELSE Head(ss) \o Flatten(Tail(ss))

InsertAt(s, i, x) == SubSeq(s, 1, i - 1) \o <<x>> \o SubSeq(s, i, Len(s))

\* the element of a one-element set: names an intermediate value once
The(S) == CHOOSE r \in S : TRUE

HasDup(s) == \E i, j \in 1..Len(s) : i < j /\ s[i] = s[j]

\* The sentinel (not-a-number) of a float buffer, encoded outside the
\* range of the ordinary buffer values (which are naturals).
NaN == 0 - 1

Digits == <<"0", "1", "2", "3", "4", "5", "6", "7", "8", "9">>

RECURSIVE StrOfNat(_)
StrOfNat(n) ==
  IF n < 10 THEN Digits[n + 1]
  ELSE StrOfNat(n \div 10) \o Digits[(n % 10) + 1]

(***************************************************************************)
(* Row-major addressing of a flat buffer (numpy's C order).                *)
(***************************************************************************)
RECURSIVE Ravel(_, _)
Ravel(idx, shape) ==
  IF idx = <<>> THEN 0
  ELSE Head(idx) * Prod(Tail(shape)) + Ravel(Tail(idx), Tail(shape))

RECURSIVE Unravel(_, _)
Unravel(flat, shape) ==
  IF shape = <<>> THEN <<>>
  ELSE LET p == Prod(Tail(shape))
       IN <<flat \div p>> \o Unravel(flat % p, Tail(shape))


(***************************************************************************)
(* Labels: a Label Set is a sequence of tokens with the dtype numpy gave   *)
(* it ("int" for all-integer input, "str" otherwise).  Integer tokens are  *)
(* kept by their decimal text.                                             *)
(***************************************************************************)
LS(tok, kind) == [tok |-> tok, kind |-> kind]

\* tuple(range(n)), the default labels of an axis
RangeLabels(n) == LS(SeqOf(n, LAMBDA i : StrOfNat(i - 1)), "int")

\* Labels.__new__: dtype selection and the uniqueness assertion
LabelsNew(raw) ==
  IF HasDup(raw.tok) THEN [err |-> "AssertionError", ls |-> LS(<<>>, "str")]
  ELSE [err |-> "", ls |-> LS(raw.tok, raw.kind)]

\* a find that answers the first position for every token present
LabelsFindFirst(ls, value) ==
  IF \A i \in 1..Len(ls.tok) : ls.kind # "str" \/ ls.tok[i] # value
  THEN [err |-> "NameError", i |-> 0]
  ELSE [err |-> "", i |-> 0]

\* Labels.find: position of the first token equal to value; the raise
\* statement formats an undefined name, so an absent value ends in NameError
LabelsFind(ls, value) ==
  LET hits == {i \in 1..Len(ls.tok) : ls.kind = "str" /\ ls.tok[i] = value}
  IN IF hits = {} THEN [err |-> "NameError", i |-> 0]
     ELSE [err |-> "", i |-> (CHOOSE i \in hits : \A j \in hits : i <= j) - 1]

(***************************************************************************)
(* LabeledArray values and results of operations.                          *)
(***************************************************************************)
Arr(shape, data, labels) == [shape |-> shape, data |-> data, labels |-> labels]

NoArr == Arr(<<>>, <<>>, <<>>)

RNone == [kind |-> "none", a |-> NoArr, v |-> 0, err |-> ""]
RArr(a) == [kind |-> "array", a |-> a, v |-> 0, err |-> ""]
RScalar(v) == [kind |-> "scalar", a |-> NoArr, v |-> v, err |-> ""]
RErr(e) == [kind |-> "error", a |-> NoArr, v |-> 0, err |-> e]
RHang == [kind |-> "hang", a |-> NoArr, v |-> 0, err |-> ""]

\* a constructor that skips the closing assertion
LengthsUnchecked(labels, shape) == TRUE

\* the assertion closing LabeledArray.__new__
LengthsMatch(labels, shape) ==
  /\ Len(labels) = Len(shape)
  /\ \A i \in 1..Len(shape) : Len(labels[i].tok) = shape[i]

\* LabeledArray.__new__(input_array, labels)
LabeledArrayNew(shape, data, supplied) ==
  LET rawl == supplied \o
              SeqOf(Max2(Len(shape) - Len(supplied), 0),
                    LAMBDA i : RangeLabels(shape[Len(supplied) + i]))
      made == SeqOf(Len(rawl), LAMBDA i : LabelsNew(rawl[i]))
      labels == SeqOf(Len(rawl), LAMBDA i : made[i].ls)
  IN IF \E i \in 1..Len(rawl) : made[i].err # "" THEN RErr("AssertionError")
     ELSE IF ~LengthsMatch(labels, shape) THEN RErr("AssertionError")
     ELSE RArr(Arr(shape, data, labels))

(***************************************************************************)
(* Index keys.  A key atom is an integer, a label (string), a slice, the   *)
(* new-axis marker None, an Ellipsis, or a list/tuple of integers and      *)
(* labels.  All atoms share one record shape.                              *)
(***************************************************************************)
Slice(hasLo, lo, hasHi, hi, step) ==
  [hasLo |-> hasLo, lo |-> lo, hasHi |-> hasHi, hi |-> hi, step |-> step]

NoSlice == Slice(FALSE, 0, FALSE, 0, 1)

KInt(k) == [t |-> "int", i |-> k, s |-> "", l |-> <<>>, sl |-> NoSlice]
KStr(s) == [t |-> "str", i |-> 0, s |-> s, l |-> <<>>, sl |-> NoSlice]
KSlice(sl) == [t |-> "slice", i |-> 0, s |-> "", l |-> <<>>, sl |-> sl]
KNone == [t |-> "none", i |-> 0, s |-> "", l |-> <<>>, sl |-> NoSlice]
KEll == [t |-> "ell", i |-> 0, s |-> "", l |-> <<>>, sl |-> NoSlice]
KList(l) == [t |-> "list", i |-> 0, s |-> "", l |-> l, sl |-> NoSlice]

\* elements of a list key
EInt(k) == [isStr |-> FALSE, i |-> k, s |-> ""]
EStr(s) == [isStr |-> TRUE, i |-> 0, s |-> s]

\* entries of the parsed label keys (new_keys): a scalar position, a
\* sequence of positions (a range or a list), or None
LKInt(k) == [t |-> "int", i |-> k, l |-> <<>>]
LKPos(l) == [t |-> "pos", i |-> 0, l |-> l]
LKNone == [t |-> "none", i |-> 0, l |-> <<>>]

Range(n) == SeqOf(n, LAMBDA i : i - 1)

\* slice.indices(n) followed by range(start, stop, step): the positions a
\* Python slice selects from a sequence of length n
SliceIdx(n, sl) ==
  LET neg == sl.step < 0
      lower == IF neg THEN 0 - 1 ELSE 0
      upper == IF neg THEN n - 1 ELSE n
      Adj(x) == IF x < 0
                THEN (IF x + n < 0 THEN lower ELSE x + n)
                ELSE (IF x >= n THEN upper ELSE x)
      start == IF sl.hasLo THEN Adj(sl.lo) ELSE (IF neg THEN upper ELSE lower)
      stop == IF sl.hasHi THEN Adj(sl.hi) ELSE (IF neg THEN lower ELSE upper)
      len == IF neg
             THEN (IF stop < start
                   THEN ((start - stop - 1) \div (0 - sl.step)) + 1 ELSE 0)
             ELSE (IF start < stop
                   THEN ((stop - start - 1) \div sl.step) + 1 ELSE 0)
  IN SeqOf(len, LAMBDA j : start + (j - 1) * sl.step)

\* seq[slice] for a sequence of positions
SliceOf(l, sl) ==
  LET ix == SliceIdx(Len(l), sl) IN SeqOf(Len(ix), LAMBDA j : l[ix[j] + 1])

(***************************************************************************)
(* LabeledArray._parse_index.  The state of its loop over the keys is      *)
(* st = [keys, nk, dim, nc, err, hang]: the (rewritten) original keys, the *)
(* new_keys list, the cursor dim, newaxis_count, the exception raised, and *)
(* whether the negative-key loop fails to terminate.                       *)
(***************************************************************************)
PSt(keys, nk, dim, nc, err, hang) ==
  [keys |-> keys, nk |-> nk, dim |-> dim, nc |-> nc, err |-> err,
   hang |-> hang]

PFail(st, e) == [st EXCEPT !.err = e]

\* new_keys[dim] = key; dim += 1
PStore(st, lk) ==
  IF st.dim >= Len(st.nk) THEN PFail(st, "IndexError")
  ELSE [st EXCEPT !.nk[st.dim + 1] = lk, !.dim = st.dim + 1]

\* the branch of a string key (lines 361-363, 386-390)
ParseStr(a, st, i, key) ==
  LET ax == st.dim - st.nc
  IN IF ax >= Len(a.labels) THEN PFail(st, "IndexError")
     ELSE LET f == LabelsFind(a.labels[ax + 1], key.s)
          IN IF f.err # "" THEN PFail(st, f.err)
             ELSE PStore([st EXCEPT !.keys[i] = KInt(f.i)], LKInt(f.i))

\* the branch of an Ellipsis (lines 364-368)
ParseEll(a, st) ==
  LET num_ellipsis_dims == Len(a.shape) - Len(st.keys) + 1
  IN [st EXCEPT !.dim = Max2(st.dim, num_ellipsis_dims)]

\* the branch of a slice (lines 369-370, 389-390)
ParseSlice(a, st, key) ==
  IF st.dim >= Len(st.nk) THEN PFail(st, "IndexError")
  ELSE IF st.nk[st.dim + 1].t # "pos" THEN PFail(st, "TypeError")
  ELSE PStore(st, LKPos(SliceOf(st.nk[st.dim + 1].l, key.sl)))

\* the branch of a new-axis marker (lines 371-375)
ParseNone(st) ==
  LET at == IF st.dim > Len(st.nk) THEN Len(st.nk) ELSE st.dim
  IN [st EXCEPT !.nk = InsertAt(st.nk, at + 1, LKNone),
                !.nc = st.nc + 1, !.dim = st.dim + 1]

\* the branch of a list or tuple key (lines 376-384, 389-390)
ParseList(a, st, i, key) ==
  LET ax == st.dim - st.nc
      strs == {j \in 1..Len(key.l) : key.l[j].isStr}
      found == [j \in 1..Len(key.l) |->
                 IF key.l[j].isStr /\ ax < Len(a.labels)
                 THEN LabelsFind(a.labels[ax + 1], key.l[j].s)
                 ELSE [err |-> "", i |-> key.l[j].i]]
      ints == SeqOf(Len(key.l), LAMBDA j : found[j].i)
  IN IF strs # {} /\ ax >= Len(a.labels) THEN PFail(st, "IndexError")
     ELSE IF \E j \in strs : found[j].err # "" THEN PFail(st, "NameError")
     ELSE PStore([st EXCEPT !.keys[i] =
                     KList(SeqOf(Len(ints), LAMBDA j : EInt(ints[j])))],
                 LKPos(ints))

\* the branch of an integer key (lines 386-390)
ParseInt(a, st, key) ==
  LET ax == st.dim - st.nc
  IN IF key.i >= 0 THEN PStore(st, LKInt(key.i))
     ELSE IF ax >= Len(a.shape) THEN PFail(st, "IndexError")
     ELSE IF a.shape[ax + 1] = 0 THEN [st EXCEPT !.hang = TRUE]
     ELSE PStore(st, LKInt(key.i % a.shape[ax + 1]))

ParseKey(a, st, i) ==
  LET key == st.keys[i]
  IN CASE key.t = "str" -> ParseStr(a, st, i, key)
       [] key.t = "ell" -> ParseEll(a, st)
       [] key.t = "slice" -> ParseSlice(a, st, key)
       [] key.t = "none" -> ParseNone(st)
       [] key.t = "list" -> ParseList(a, st, i, key)
       [] OTHER -> ParseInt(a, st, key)

RECURSIVE ParseFrom(_, _, _)
ParseFrom(a, st, i) ==
  IF i > Len(st.keys) \/ st.err # "" \/ st.hang THEN st
  ELSE ParseFrom(a, ParseKey(a, st, i), i + 1)

\* _parse_index(keys): the rewritten keys and the label keys
ParseIndex(a, keys) ==
  ParseFrom(a, PSt(keys, SeqOf(Len(a.shape), LAMBDA d : LKPos(Range(a.shape[d]))),
                   0, 0, "", FALSE), 1)


(***************************************************************************)
(* numpy.ndarray.__getitem__/__setitem__ as used through super(): basic    *)
(* indexing (integers, slices, None, Ellipsis) combined with integer-list  *)
(* (advanced) indices.  NpSelect gives the result shape and, for every     *)
(* result cell in row-major order, the flat position of its source cell.   *)
(***************************************************************************)
NpConsumes(k) == k.t \in {"int", "slice", "list"}

NpAdvanced(k) == k.t \in {"int", "list"}

NpInRange(k, n) == 0 - n <= k /\ k < n

NpNorm(k, n) == IF k < 0 THEN k + n ELSE k

NpSelect(shape, keys) ==
  LET ndim == Len(shape)
      n == Len(keys)
      ells == {p \in 1..n : keys[p].t = "ell"}
      nCons == Cardinality({p \in 1..n : NpConsumes(keys[p])})
      ellN == ndim - nCons
      \* an index without Ellipsis has an implicit one at its end
      ellPos == IF ells = {} THEN n + 1 ELSE CHOOSE p \in ells : TRUE
      ConsBefore(p) == Cardinality({q \in 1..(p - 1) : NpConsumes(keys[q])})
      AxisOf(p) == ConsBefore(p) + (IF ellPos < p THEN ellN ELSE 0)
      lists == {p \in 1..n : keys[p].t = "list"}
      hasF == lists # {}
      advs == {p \in 1..n : NpAdvanced(keys[p])}
      firstAdv == CHOOSE p \in advs : \A q \in advs : p <= q
      lastAdv == CHOOSE p \in advs : \A q \in advs : q <= p
      consecutive == \A q \in firstAdv..lastAdv : q \in advs
      lens == {Len(keys[p].l) : p \in lists}
      wide == {x \in lens : x # 1}
      L == IF wide = {} THEN 1 ELSE CHOOSE x \in wide : TRUE
      Contrib(p) ==
        IF p = ellPos
        THEN SeqOf(Max2(ellN, 0), LAMBDA j :
               [t |-> "ax", ax |-> ConsBefore(p) + j - 1,
                pos |-> Range(shape[ConsBefore(p) + j])])
        ELSE IF p > n THEN <<>>
        ELSE IF keys[p].t = "slice"
        THEN <<[t |-> "ax", ax |-> AxisOf(p),
                pos |-> SliceIdx(shape[AxisOf(p) + 1], keys[p].sl)]>>
        ELSE IF keys[p].t = "none"
        THEN <<[t |-> "new", ax |-> 0 - 1, pos |-> <<0>>]>>
        ELSE <<>>
      plain == Flatten(SeqOf(n + 1, LAMBDA p : Contrib(p)))
      PlainBefore(p) == Len(Flatten(SeqOf(p - 1, LAMBDA q : Contrib(q))))
      \* mapping.c: the dimensions of the advanced indices replace them in
      \* place when they are adjacent and come first otherwise
      fpos == IF consecutive THEN PlainBefore(firstAdv) ELSE 0
      rdims == IF hasF
               THEN InsertAt(plain, fpos + 1,
                             [t |-> "fancy", ax |-> 0 - 1, pos |-> Range(L)])
               ELSE plain
      rshape == SeqOf(Len(rdims), LAMBDA d : Len(rdims[d].pos))
      bad == \E p \in 1..n :
               \/ /\ keys[p].t = "int"
                  /\ ~NpInRange(keys[p].i, shape[AxisOf(p) + 1])
               \/ /\ keys[p].t = "list"
                  /\ \E j \in 1..Len(keys[p].l) :
                       ~NpInRange(keys[p].l[j].i, shape[AxisOf(p) + 1])
      SrcAt(ridx, s) ==
        LET own == {p \in 1..n : NpConsumes(keys[p]) /\ AxisOf(p) = s}
        IN IF \E p \in own : keys[p].t = "int"
           THEN LET p == CHOOSE p \in own : TRUE
                IN NpNorm(keys[p].i, shape[s + 1])
           ELSE IF \E p \in own : keys[p].t = "list"
           THEN LET p == CHOOSE p \in own : TRUE
                    j == IF Len(keys[p].l) = 1 THEN 0 ELSE ridx[fpos + 1]
                IN NpNorm(keys[p].l[j + 1].i, shape[s + 1])
           ELSE LET d == CHOOSE d \in 1..Len(rdims) :
                            rdims[d].t = "ax" /\ rdims[d].ax = s
                IN rdims[d].pos[ridx[d] + 1]
      Src(r) ==
        LET ridx == Unravel(r, rshape)
        IN Ravel(SeqOf(ndim, LAMBDA s : SrcAt(ridx, s - 1)), shape)
  IN IF Cardinality(ells) > 1 \/ nCons > ndim
     THEN [err |-> "IndexError", rshape |-> <<>>, src |-> <<>>]
     ELSE IF bad \/ Cardinality(wide) > 1
     THEN [err |-> "IndexError", rshape |-> <<>>, src |-> <<>>]
     ELSE [err |-> "", rshape |-> rshape,
           src |-> SeqOf(Prod(rshape), LAMBDA r : Src(r - 1))]

\* Labels[positions]: numpy's integer-list index of a 1-d array
LabelsTake(ls, l) ==
  IF \E j \in 1..Len(l) : ~NpInRange(l[j], Len(ls.tok))
  THEN [err |-> "IndexError", ls |-> LS(<<>>, "str")]
  ELSE [err |-> "",
        ls |-> LS(SeqOf(Len(l), LAMBDA j : ls.tok[NpNorm(l[j], Len(ls.tok)) + 1]),
                  ls.kind)]


(***************************************************************************)
(* LabeledArray._to_coords and LabeledArray.__getitem__.  A subscript is   *)
(* either a tuple of key atoms or one bare (non-tuple) atom.               *)
(***************************************************************************)
\* _to_coords: a scalar is wrapped, anything else goes through list(...)
ToCoords(keys, bare) ==
  IF ~bare \/ keys[1].t \in {"int", "str"} THEN [err |-> "", keys |-> keys]
  ELSE IF keys[1].t = "list"
  THEN [err |-> "",
        keys |-> SeqOf(Len(keys[1].l), LAMBDA j :
                   IF keys[1].l[j].isStr THEN KStr(keys[1].l[j].s)
                   ELSE KInt(keys[1].l[j].i))]
  ELSE [err |-> "TypeError", keys |-> <<>>]

\* the label of an inserted axis (line 411)
NewAxisLabels == LS(<<"1">>, "str")

\* the loop of __getitem__ over the label keys (lines 407-418): one Label
\* Set per non-scalar label key
RECURSIVE GetLabels(_, _, _, _)
GetLabels(a, lks, i, j) ==
  IF i >= Len(lks) THEN [err |-> "", labels |-> <<>>]
  ELSE LET lk == lks[i + 1]
           here == IF lk.t = "none" THEN [err |-> "", ls |-> NewAxisLabels]
                   ELSE IF i - j >= Len(a.labels)
                   THEN [err |-> "IndexError", ls |-> NewAxisLabels]
                   ELSE LabelsTake(a.labels[i - j + 1], lk.l)
           rest == GetLabels(a, lks, i + 1, IF lk.t = "none" THEN j + 1 ELSE j)
       IN IF lk.t = "int" THEN rest
          ELSE IF here.err # "" THEN [err |-> here.err, labels |-> <<>>]
          ELSE IF rest.err # "" THEN rest
          ELSE [err |-> "", labels |-> <<here.ls>> \o rest.labels]

Gather(data, src) == SeqOf(Len(src), LAMBDA r : data[src[r] + 1])

\* a read that attaches the labels without comparing their number to the rank
GetItemOutUnchecked(a, st, nl, out) ==
  IF st.hang THEN RHang
  ELSE IF st.err # "" THEN RErr(st.err)
  ELSE IF nl.err # "" THEN RErr(nl.err)
  ELSE IF out.err # "" THEN RErr(out.err)
  ELSE IF out.rshape = <<>> THEN RScalar(a.data[out.src[1] + 1])
  ELSE RArr(Arr(out.rshape, Gather(a.data, out.src), nl.labels))

\* the tail of __getitem__ (lines 419-429): the labels found, then the numpy
\* read, then the rank check
GetItemOut(a, st, nl, out) ==
  IF st.hang THEN RHang
  ELSE IF st.err # "" THEN RErr(st.err)
  ELSE IF nl.err # "" THEN RErr(nl.err)
  ELSE IF out.err # "" THEN RErr(out.err)
  ELSE IF out.rshape = <<>> THEN RScalar(a.data[out.src[1] + 1])
  ELSE IF Len(out.rshape) # Len(nl.labels) THEN RErr("AssertionError")
  ELSE RArr(Arr(out.rshape, Gather(a.data, out.src), nl.labels))

GetItemParsed(a, st) ==
  The({GetItemOut(a, st, nl, out) : nl \in {GetLabels(a, st.nk, 0, 0)},
                                    out \in {NpSelect(a.shape, st.keys)}})

GetItemCoords(a, c) ==
  IF c.err # "" THEN RErr(c.err)
  ELSE The({GetItemParsed(a, st) : st \in {ParseIndex(a, c.keys)}})

\* LabeledArray.__getitem__(orig_keys)
GetItem(a, keys, bare) ==
  The({GetItemCoords(a, c) : c \in {ToCoords(keys, bare)}})

(***************************************************************************)
(* LabeledArray.__setitem__(keys, value) with a scalar value: the keys go  *)
(* through _to_coords and the buffer is written through numpy.  The result *)
(* is the exception raised (or none) and the array left behind.            *)
(***************************************************************************)
\* a write that reaches only the first of the addressed cells
ScatterFirst(data, src, value) ==
  [c \in 1..Len(data) |->
     IF src # <<>> /\ src[1] + 1 = c THEN value ELSE data[c]]

Scatter(data, src, value) ==
  [c \in 1..Len(data) |->
     IF \E r \in 1..Len(src) : src[r] + 1 = c THEN value ELSE data[c]]

SetItemOut(a, st, out, value) ==
  IF st.hang THEN [r |-> RHang, a |-> a]
  ELSE IF st.err # "" THEN [r |-> RErr(st.err), a |-> a]
  ELSE IF out.err # "" THEN [r |-> RErr(out.err), a |-> a]
  ELSE [r |-> RNone, a |-> [a EXCEPT !.data = Scatter(a.data, out.src, value)]]

SetItemParsed(a, st, value) ==
  The({SetItemOut(a, st, out, value) : out \in {NpSelect(a.shape, st.keys)}})

SetItemCoords(a, c, value) ==
  IF c.err # "" THEN [r |-> RErr(c.err), a |-> a]
  ELSE The({SetItemParsed(a, st, value) : st \in {ParseIndex(a, c.keys)}})

SetItem(a, keys, bare, value) ==
  The({SetItemCoords(a, c, value) : c \in {ToCoords(keys, bare)}})

(***************************************************************************)
(* The NaN-padding concatenator.  A bare numeric buffer is a shape and its *)
(* row-major cells; err is the exception raised in its place, if any.      *)
(***************************************************************************)
Nd(shape, data) == [err |-> "", shape |-> shape, data |-> data]

NdErr(e) == [err |-> e, shape |-> <<>>, data |-> <<>>]

RECURSIVE SumSeq(_)
SumSeq(s) == IF s = <<>> THEN 0 ELSE Head(s) + SumSeq(Tail(s))

RECURSIVE MaxSeq(_)
MaxSeq(s) == IF s = <<>> THEN 0 ELSE Max2(Head(s), MaxSeq(Tail(s)))

\* nan_concatinate(arrays, axis): the extent of the concatenation axis is
\* the sum of the inputs' extents, every other extent the largest among the
\* inputs; each input keeps its cells at its offset and the rest is NaN
NanConcatinate(arrays, axis) ==
  LET n == Len(arrays[1].shape)
      Extents(d) == SeqOf(Len(arrays), LAMBDA k : arrays[k].shape[d])
      Offset(k) == SumSeq(SubSeq(Extents(axis + 1), 1, k - 1))
      shape == SeqOf(n, LAMBDA d : IF d = axis + 1 THEN SumSeq(Extents(d))
                                   ELSE MaxSeq(Extents(d)))
      Owner(pos) == CHOOSE k \in 1..Len(arrays) :
                      /\ Offset(k) <= pos
                      /\ pos < Offset(k) + arrays[k].shape[axis + 1]
      Cell(r) == LET idx == Unravel(r - 1, shape)
                     k == Owner(idx[axis + 1])
                     loc == [idx EXCEPT ![axis + 1] = @ - Offset(k)]
                 IN IF \A d \in 1..n : loc[d] < arrays[k].shape[d]
                    THEN arrays[k].data[Ravel(loc, arrays[k].shape) + 1]
                    ELSE NaN
  IN IF arrays = <<>> THEN NdErr("ValueError")
     ELSE IF \E k \in 1..Len(arrays) : Len(arrays[k].shape) # n
     THEN NdErr("ValueError")
     ELSE IF axis >= n THEN NdErr("ValueError")
     ELSE Nd(shape, SeqOf(Prod(shape), Cell))

NonEmpty(ar) == Prod(ar.shape) > 0

\* while axis < 0: axis += max(a.ndim for a in arrays), over the inputs that
\* were kept: max() of no input raises, and with inputs of rank 0 only the
\* loop never ends (err is "hang")
ConcatenateKept(kept, axis) ==
  LET maxrank == MaxSeq(SeqOf(Len(kept), LAMBDA k : Len(kept[k].shape)))
  IN IF axis >= 0 THEN NanConcatinate(kept, axis)
     ELSE IF kept = <<>> THEN NdErr("ValueError")
     ELSE IF maxrank = 0 THEN NdErr("hang")
     ELSE NanConcatinate(kept, axis % maxrank)

\* a concatenation that gives no leading axis to its inputs
ConcatenateArraysFlat(arrays, newAxis, axis) ==
  The({ConcatenateKept(kept, IF newAxis THEN 0 ELSE axis) :
         kept \in {SelectSeq(arrays, NonEmpty)}})

\* a concatenation that keeps the zero-size inputs
ConcatenateArraysUnfiltered(arrays, newAxis, axis) ==
  LET expanded == IF newAxis
                  THEN SeqOf(Len(arrays), LAMBDA i :
                         Nd(<<1>> \o arrays[i].shape, arrays[i].data))
                  ELSE arrays
  IN ConcatenateKept(expanded, IF newAxis THEN 0 ELSE axis)

\* concatenate_arrays(arrays, axis); newAxis stands for axis=None
ConcatenateArrays(arrays, newAxis, axis) ==
  LET expanded == IF newAxis
                  THEN SeqOf(Len(arrays), LAMBDA i :
                         Nd(<<1>> \o arrays[i].shape, arrays[i].data))
                  ELSE arrays
  IN The({ConcatenateKept(kept, IF newAxis THEN 0 ELSE axis) :
            kept \in {SelectSeq(expanded, NonEmpty)}})

(***************************************************************************)
(* The Nested-Mapping Bridge.  A node of a mapping is a scalar leaf or a   *)
(* dict: its keys in insertion order and their values.  The dicts of the   *)
(* model are never empty.                                                  *)
(***************************************************************************)
Leaf(v) == [leaf |-> TRUE, v |-> v, keys |-> <<>>, vals |-> <<>>]

Dict(keys, vals) == [leaf |-> FALSE, v |-> 0, keys |-> keys, vals |-> vals]

\* inner_array: a scalar is returned as it is, a dict becomes its values'
\* arrays stacked along a new leading axis
RECURSIVE InnerArray(_)
InnerArray(d) ==
  IF d.leaf THEN Nd(<<>>, <<d.v>>)
  ELSE The({IF \E i \in 1..Len(parts) : parts[i].err # ""
            THEN NdErr("ValueError")
            ELSE ConcatenateArrays(parts, TRUE, 0) :
              parts \in {SeqOf(Len(d.vals), LAMBDA i : InnerArray(d.vals[i]))}})

\* add_to_list_if_not_present
AddToListIfNotPresent(lst, element) ==
  lst \o SelectSeq(element, LAMBDA x : \A j \in 1..Len(lst) : lst[j] # x)

\* inner_all_keys(data, keys, lvl): the keys seen at each depth, in the
\* order first seen, walking the branches depth-first
RECURSIVE InnerAllKeys(_, _, _)
RECURSIVE InnerAllKeysOver(_, _, _, _)
InnerAllKeys(d, keys, lvl) ==
  IF d.leaf THEN keys
  ELSE InnerAllKeysOver(d.vals, 1,
         IF Len(keys) < lvl + 1 THEN Append(keys, d.keys)
         ELSE [keys EXCEPT ![lvl + 1] = AddToListIfNotPresent(@, d.keys)],
         lvl)

InnerAllKeysOver(vals, i, keys, lvl) ==
  IF i > Len(vals) THEN keys
  ELSE InnerAllKeysOver(vals, i + 1, InnerAllKeys(vals[i], keys, lvl + 1), lvl)

FromDictOf(nd, keys) ==
  IF nd.err # "" THEN RErr(nd.err)
  ELSE LabeledArrayNew(nd.shape, nd.data,
                       SeqOf(Len(keys), LAMBDA i : LS(keys[i], "str")))

\* LabeledArray.from_dict(data)
FromDict(d) ==
  The({FromDictOf(nd, keys) : nd \in {InnerArray(d)},
                              keys \in {InnerAllKeys(d, <<>>, 0)}})

(***************************************************************************)
(* The inputs the model draws: shapes, label sets and subscripts.          *)
(***************************************************************************)
RECURSIVE SeqsUpTo(_, _)
SeqsUpTo(S, n) ==
  IF n = 0 THEN {<<>>}
  ELSE LET shorter == SeqsUpTo(S, n - 1)
       IN shorter \cup {Append(q, x) : q \in {r \in shorter : Len(r) = n - 1},
                                        x \in S}

\* every shape of up to MaxRank axes of extent 1..MaxExt, and the empty
\* one-dimensional array
Shapes == (SeqsUpTo(1..MaxExt, MaxRank) \ {<<>>}) \cup {<<0>>}

Tokens == <<"x", "y", "z", "w", "v">>

NamedLabels(n) == LS(SubSeq(Tokens, 1, n), "str")

\* label tuples a caller may pass: the first n tokens, or a repeated token
LabelInputs ==
  {NamedLabels(n) : n \in 0..(MaxExt + 1)} \cup {LS(<<"x", "x">>, "str")}

Arange(shape) == Range(Prod(shape))

KeyInts == {0 - MaxExt - 1, 0 - 1, 0, 1}

KeyLabels == {"x", "y", "q"}

KeySlices == {Slice(FALSE, 0, FALSE, 0, 1), Slice(TRUE, 1, FALSE, 0, 1)}

KeyLists == {<<EStr("y"), EStr("x")>>, <<EStr("x"), EStr("x")>>}

KeyAtoms ==
  {KInt(k) : k \in KeyInts} \cup {KStr(s) : s \in KeyLabels}
  \cup {KSlice(sl) : sl \in KeySlices} \cup {KNone, KEll}
  \cup {KList(l) : l \in KeyLists}

Keys == SeqsUpTo(KeyAtoms, MaxKeyLen) \ {<<>>}

\* the orders in which a dict of the model may hold its keys
KeyOrders ==
  {o \in SeqsUpTo({Tokens[i] : i \in 1..MaxExt}, MaxExt) \ {<<>>} : ~HasDup(o)}

TokenIndex(t) == CHOOSE i \in 1..Len(Tokens) : Tokens[i] = t

\* the innermost dict under the keys k1, k2: each leaf holds a value
\* telling its path
LeafDict(k1, k2, order) ==
  Dict(order, SeqOf(Len(order), LAMBDA j :
    Leaf((TokenIndex(k1) * (MaxExt + 1) + TokenIndex(k2)) * (MaxExt + 1)
         + TokenIndex(order[j]))))

\* nested mappings of depth 3 with one outer key, as in
\* {'x': {'x': {...}, 'y': {...}}}: the innermost dicts may differ in their
\* keys and in the order of their keys (ragged branches)
RaggedMappings ==
  {Dict(<<Tokens[1]>>,
        <<Dict(SubSeq(Tokens, 1, n),
               SeqOf(n, LAMBDA i :
                 LeafDict(Tokens[1], Tokens[i], orders[i])))>>) :
     n \in 1..MaxExt, orders \in [1..MaxExt -> KeyOrders]}

\* nested mappings of depth 3 with two outer keys whose dicts may differ in
\* their keys and in the order of their keys, over full innermost dicts
WideMappings ==
  {Dict(SubSeq(Tokens, 1, 2),
        SeqOf(2, LAMBDA t :
          Dict(orders[t], SeqOf(Len(orders[t]), LAMBDA i :
            LeafDict(Tokens[t], orders[t][i], SubSeq(Tokens, 1, MaxExt)))))) :
     orders \in [1..2 -> KeyOrders]}

Mappings == RaggedMappings \cup WideMappings

NoMap == Dict(<<>>, <<>>)

\* a value that no cell of an arange buffer of the model holds
WriteVals == {Prod(SeqOf(MaxRank, LAMBDA i : MaxExt + 1))}

(***************************************************************************)
(* The state machine.  arr is the array the caller holds (NoArr before the *)
(* first construction), res the value of the last operation, op what that  *)
(* operation was, pre the array it was applied to, gen the number of times *)
(* the caller took a sub-array as its array, origin the mapping the array  *)
(* was built from (NoMap if none), path the labels through which the       *)
(* sub-arrays were taken, and arg the further arguments of the last        *)
(* numeric or label operation (NoArg if none).                             *)
(***************************************************************************)
Op(name, keys, bare, val, shape, supplied) ==
  [name |-> name, keys |-> keys, bare |-> bare, val |-> val,
   shape |-> shape, supplied |-> supplied]

NoOp == Op("init", <<>>, FALSE, 0, <<>>, <<>>)

NoArg == [none |-> TRUE]

Init ==
  /\ arr = NoArr
  /\ res = RNone
  /\ op = NoOp
  /\ pre = NoArr
  /\ gen = 0
  /\ origin = NoMap
  /\ path = <<>>
  /\ arg = NoArg

Idle == op.name = "init"

\* res = LabeledArray(np.arange(n).reshape(shape), supplied)
DoConstruct ==
  /\ Idle /\ arr = NoArr
  /\ \E shape \in Shapes, supplied \in SeqsUpTo(LabelInputs, MaxRank) :
       /\ res' = LabeledArrayNew(shape, Arange(shape), supplied)
       /\ op' = Op("construct", <<>>, FALSE, 0, shape, supplied)
  /\ UNCHANGED <<arr, pre, gen, origin, path, arg>>

\* res = LabeledArray.from_dict(m)
DoFromDict ==
  /\ Idle /\ arr = NoArr
  /\ \E m \in Mappings :
       /\ res' = FromDict(m)
       /\ origin' = m
  /\ op' = Op("from_dict", <<>>, FALSE, 0, <<>>, <<>>)
  /\ UNCHANGED <<arr, pre, gen, path, arg>>

\* res = arr[keys]
DoGetItem ==
  /\ Idle /\ arr # NoArr
  /\ \E keys \in Keys, bare \in BOOLEAN :
       /\ bare => Len(keys) = 1
       /\ res' = GetItem(arr, keys, bare)
       /\ op' = Op("getitem", keys, bare, 0, <<>>, <<>>)
  /\ pre' = arr
  /\ UNCHANGED <<arr, gen, origin, path, arg>>

\* arr[keys] = val
DoSetItem ==
  /\ Idle /\ arr # NoArr
  /\ \E keys \in Keys, bare \in BOOLEAN, val \in WriteVals :
       /\ bare => Len(keys) = 1
       /\ \E w \in {SetItem(arr, keys, bare, val)} :
            /\ res' = w.r
            /\ arr' = w.a
       /\ op' = Op("setitem", keys, bare, val, <<>>, <<>>)
  /\ pre' = arr
  /\ UNCHANGED <<gen, origin, path, arg>>

\* the caller goes on with the array just constructed
UseConstructed ==
  /\ op.name \in {"construct", "from_dict"} /\ res.kind = "array"
  /\ arr' = res.a
  /\ res' = RNone /\ op' = NoOp /\ pre' = NoArr
  /\ UNCHANGED <<gen, origin, path, arg>>

\* the caller goes on with the sub-array read through one label, as in
\* a[k1][k2]
UseSubArray ==
  /\ op.name = "getitem" /\ res.kind = "array" /\ gen < MaxGen
  /\ op.bare /\ op.keys[1].t = "str"
  /\ arr' = res.a
  /\ res' = RNone /\ op' = NoOp /\ pre' = NoArr
  /\ gen' = gen + 1
  /\ path' = Append(path, op.keys[1].s)
  /\ UNCHANGED <<origin, arg>>

Next ==
  \/ DoConstruct
  \/ DoFromDict
  \/ DoGetItem
  \/ DoSetItem
  \/ UseConstructed
  \/ UseSubArray

Spec == Init /\ [][Next]_vars

\* construction alone: the caller builds one array and holds it
ConstructNext ==
  \/ DoConstruct
  \/ UseConstructed

ConstructSpec == Init /\ [][ConstructNext]_vars

(***************************************************************************)
(* Properties of the arrays held and returned.                             *)
(***************************************************************************)
\* one Label Set per axis, each as long as its axis
WellShaped(a) ==
  /\ Len(a.labels) = Len(a.shape)
  /\ \A i \in 1..Len(a.shape) : Len(a.labels[i].tok) = a.shape[i]

\* the arrays of a state: the receiver and the array just returned
Instances ==
  (IF arr = NoArr THEN {} ELSE {arr})
  \cup (IF res.kind = "array" THEN {res.a} ELSE {})

\* C1: after any sequence of operations every array instance (each result
\* and each receiver) has exactly one Label Set per axis and
\* len(labels[i]) = shape[i] for every axis i.
C1_ShapeInvariant == \A a \in Instances : WellShaped(a)

\* C2: no Label Set attached to an array holds a token twice, whether the
\* array was constructed directly or derived by indexing.
C2_LabelsUnique ==
  \A a \in Instances : \A i \in 1..Len(a.labels) : ~HasDup(a.labels[i].tok)

\* some supplied Label Set is not as long as its axis
SuppliedMismatch(shape, supplied) ==
  \E i \in 1..Len(supplied) :
    i <= Len(shape) /\ Len(supplied[i].tok) # shape[i]

\* C3: constructing from a buffer and explicit labels fails (no array is
\* returned) whenever some supplied Label Set's length differs from the
\* extent of its axis.
C3_MismatchFails ==
  (op.name = "construct" /\ SuppliedMismatch(op.shape, op.supplied))
    => res.kind = "error"

C3_Witness ==
  /\ op.name = "construct"
  /\ SuppliedMismatch(op.shape, op.supplied)
  /\ \A i \in 1..Len(op.supplied) : ~HasDup(op.supplied[i].tok)
  /\ res.kind = "error"

\* the key sequence of a subscript: a bare list stands for its elements
KeySeq(o) ==
  IF o.bare /\ o.keys[1].t = "list"
  THEN SeqOf(Len(o.keys[1].l), LAMBDA j :
         IF o.keys[1].l[j].isStr THEN KStr(o.keys[1].l[j].s)
         ELSE KInt(o.keys[1].l[j].i))
  ELSE o.keys

\* the number of axes a key sequence leaves: every integer or label key
\* collapses one axis, every new-axis marker adds one
Surviving(n, keys) ==
  n - Cardinality({i \in 1..Len(keys) : keys[i].t \in {"int", "str"}})
    + Cardinality({i \in 1..Len(keys) : keys[i].t = "none"})

\* C5: for every accepted index key the value read has rank equal to the
\* number of surviving axes and carries exactly one Label Set per surviving
\* axis; when every axis is collapsed it is the bare scalar.
C5_RankOfResult ==
  (op.name = "getitem" /\ res.kind \in {"array", "scalar"})
    => LET n == Surviving(Len(pre.shape), KeySeq(op))
       IN IF n = 0 THEN res.kind = "scalar"
          ELSE /\ res.kind = "array"
               /\ Len(res.a.shape) = n
               /\ Len(res.a.labels) = n

C5_Witness ==
  /\ op.name = "getitem" /\ res.kind = "array"
  /\ \E i \in 1..Len(op.keys) : op.keys[i].t = "none"
  /\ \E i \in 1..Len(op.keys) : op.keys[i].t = "str"
  /\ Len(res.a.shape) < Len(pre.shape)
  /\ Len(res.a.labels) = Len(res.a.shape)

(***************************************************************************)
(* Properties of indexed reads.  The expected value of a read is written   *)
(* with TakeAxis, AddAxis and reads through simpler keys.                  *)
(***************************************************************************)
Count(keys, types) == Cardinality({i \in 1..Len(keys) : keys[i].t \in types})

Without(s, i) == SubSeq(s, 1, i - 1) \o SubSeq(s, i + 1, Len(s))

FullSlice == KSlice(NoSlice)

\* the array keeping, along axis q (1-based), the 0-based positions pos
TakeAxis(a, q, pos) ==
  LET shape == [a.shape EXCEPT ![q] = Len(pos)]
      From(r) == LET idx == Unravel(r - 1, shape)
                 IN Ravel([idx EXCEPT ![q] = pos[idx[q] + 1]], a.shape)
  IN Arr(shape,
         SeqOf(Prod(shape), LAMBDA r : a.data[From(r) + 1]),
         [a.labels EXCEPT ![q] =
            LS(SeqOf(Len(pos), LAMBDA j : a.labels[q].tok[pos[j] + 1]),
               a.labels[q].kind)])

\* the result r with an axis of length 1 labelled '1' put at position q
AddAxis(r, q) ==
  IF r.kind = "scalar" THEN RArr(Arr(<<1>>, <<r.v>>, <<NewAxisLabels>>))
  ELSE IF r.kind = "array"
  THEN RArr(Arr(InsertAt(r.a.shape, q, 1), r.a.data,
                InsertAt(r.a.labels, q, NewAxisLabels)))
  ELSE r

\* the source axes a key sequence names (all keys but None and Ellipsis)
Consuming(keys) == Count(keys, {"int", "str", "slice", "list"})

\* a key sequence with its Ellipsis written out as full slices
Expanded(n, keys) ==
  LET e == CHOOSE i \in 1..Len(keys) : keys[i].t = "ell"
  IN SubSeq(keys, 1, e - 1)
     \o SeqOf(n - Consuming(keys), LAMBDA j : FullSlice)
     \o SubSeq(keys, e + 1, Len(keys))

\* a read of a non-empty array through a key tuple of integers, labels,
\* slices and markers that holds one Ellipsis and names no more axes than
\* the array has
EllipsisCase ==
  /\ op.name = "getitem" /\ ~op.bare /\ Prod(pre.shape) > 0
  /\ Count(op.keys, {"ell"}) = 1
  /\ Count(op.keys, {"list"}) = 0
  /\ Consuming(op.keys) <= Len(pre.shape)

\* C6: an Ellipsis at any position of the key (with or without new-axis
\* markers elsewhere) consumes exactly ndim minus the number of other
\* axis-consuming keys, so every key after it is resolved against the axis
\* it is aligned with from the right: the read gives what the key with the
\* Ellipsis written out as that many full slices gives.
C6_EllipsisAligns ==
  EllipsisCase
    => res = GetItem(pre, Expanded(Len(pre.shape), op.keys), FALSE)

\* a read through a key tuple whose p-th key is a list of labels of its
\* axis, the other keys being integers, labels and slices
ListCase(p) ==
  /\ op.name = "getitem" /\ ~op.bare
  /\ p \in 1..Len(op.keys) /\ op.keys[p].t = "list"
  /\ Count(op.keys, {"list"}) = 1
  /\ Count(op.keys, {"none", "ell"}) = 0
  /\ Len(op.keys) <= Len(pre.shape)
  /\ \A j \in 1..Len(op.keys[p].l) :
       /\ op.keys[p].l[j].isStr
       /\ LabelsFind(pre.labels[p], op.keys[p].l[j].s).err = ""

\* C7: a list of labels as the key of an axis preserves that axis: the
\* result keeps it with extent equal to the number of labels given, and its
\* elements and its Label Set are those of the given labels in the given
\* order (element j along the kept axis is what the j-th label alone reads).
C7_ListKeepsAxis ==
  \A p \in 1..MaxKeyLen :
    ListCase(p) =>
      LET l == op.keys[p].l
          q == Count(SubSeq(op.keys, 1, p - 1), {"slice"}) + 1
          One(j) == GetItem(pre, [op.keys EXCEPT ![p] = KStr(l[j].s)], FALSE)
          Sub(j) == GetItem(res.a, SeqOf(q, LAMBDA i : IF i = q THEN KInt(j - 1)
                                                       ELSE FullSlice), FALSE)
      IN (\A j \in 1..Len(l) : One(j).kind \in {"array", "scalar"})
           => /\ res.kind = "array"
              /\ Len(res.a.shape) >= q
              /\ res.a.shape[q] = Len(l)
              /\ res.a.labels[q].tok = SeqOf(Len(l), LAMBDA j : l[j].s)
              /\ \A j \in 1..Len(l) : Sub(j) = One(j)

\* a read of a non-empty array through a key tuple of integers, labels,
\* slices and at most one Ellipsis whose p-th key is the only new-axis marker
NoneCase(p) ==
  /\ op.name = "getitem" /\ ~op.bare /\ Prod(pre.shape) > 0
  /\ p \in 1..Len(op.keys) /\ op.keys[p].t = "none"
  /\ Len(op.keys) >= 2
  /\ Count(op.keys, {"none"}) = 1
  /\ Count(op.keys, {"list"}) = 0
  /\ Count(op.keys, {"ell"}) <= 1
  /\ Consuming(op.keys) <= Len(pre.shape)

\* C8: a new-axis marker inserts, at its position of the result, an axis of
\* length 1 labelled '1' without consuming a source axis: the keys after it
\* are resolved as if the marker were absent, so the read gives what the
\* key without the marker gives, with that axis added.
C8_NewAxisInserted ==
  \A p \in 1..MaxKeyLen :
    NoneCase(p) =>
      LET before == SubSeq(op.keys, 1, p - 1)
          q == Count(before, {"slice"}) + 1
               + (IF Count(before, {"ell"}) = 1
                  THEN Len(pre.shape) - Consuming(op.keys) ELSE 0)
      IN res = AddAxis(GetItem(pre, Without(op.keys, p), FALSE), q)

\* a read through one integer key below zero
NegativeCase ==
  /\ op.name = "getitem" /\ Len(op.keys) = 1
  /\ op.keys[1].t = "int" /\ op.keys[1].i < 0

\* a read through one slice key
SliceCase ==
  /\ op.name = "getitem" /\ Len(op.keys) = 1 /\ op.keys[1].t = "slice"

\* C9: for an axis of extent n and any negative integer key k the read
\* terminates and returns what the key k mod n returns; slice keys select
\* positionally, the Label Set of the axis being sliced the same way.
C9_NegativeWraps ==
  /\ NegativeCase =>
       /\ res.kind # "hang"
       /\ pre.shape[1] > 0 =>
            res = GetItem(pre, <<KInt(op.keys[1].i % pre.shape[1])>>, op.bare)
  /\ SliceCase =>
       res = RArr(TakeAxis(pre, 1, SliceIdx(pre.shape[1], op.keys[1].sl)))

\* a write to a non-empty array through one label that the Label Set (of
\* strings) of axis 0 does not hold
AbsentWrite ==
  /\ op.name = "setitem" /\ op.bare /\ op.keys[1].t = "str"
  /\ Prod(pre.shape) > 0 /\ pre.labels[1].kind = "str"
  /\ \A j \in 1..Len(pre.labels[1].tok) : pre.labels[1].tok[j] # op.keys[1].s

\* C10: assignment through a string key not yet in the axis's Label Set
\* appends the label, grows the axis by one, and the written value can be
\* read back through the new label.
C10_GrowOnWrite ==
  AbsentWrite =>
    /\ arr.shape[1] = pre.shape[1] + 1
    /\ arr.labels[1].tok = Append(pre.labels[1].tok, op.keys[1].s)
    /\ LET r == GetItem(arr, op.keys, TRUE)
       IN \/ r.kind = "scalar" /\ r.v = op.val
          \/ r.kind = "array" /\ \A c \in 1..Len(r.a.data) : r.a.data[c] = op.val

(***************************************************************************)
(* Properties of reads through one label, and of chains of such reads on   *)
(* an array built from a mapping.                                          *)
(***************************************************************************)
IndexIn(s, x) == CHOOSE i \in 1..Len(s) : s[i] = x

Holds(d, k) == ~d.leaf /\ \E i \in 1..Len(d.keys) : d.keys[i] = k

ValueAt(d, k) == d.vals[IndexIn(d.keys, k)]

RECURSIVE HoldsPath(_, _)
HoldsPath(d, p) ==
  p = <<>> \/ (Holds(d, Head(p)) /\ HoldsPath(ValueAt(d, Head(p)), Tail(p)))

RECURSIVE SubMapping(_, _)
SubMapping(d, p) ==
  IF p = <<>> THEN d ELSE SubMapping(ValueAt(d, Head(p)), Tail(p))

\* the sub-array of a at the (1-based) position p of its first axis
Collapsed(a, p) ==
  LET rest == Tail(a.shape)
      m == Prod(rest)
  IN IF rest = <<>> THEN RScalar(a.data[p])
     ELSE RArr(Arr(rest, SubSeq(a.data, (p - 1) * m + 1, p * m),
                   Tail(a.labels)))

\* a read through one label that the Label Set of the first axis holds
SingleLabelCase ==
  /\ op.name = "getitem" /\ op.bare /\ op.keys[1].t = "str"
  /\ pre.labels[1].kind = "str"
  /\ \E j \in 1..Len(pre.labels[1].tok) : pre.labels[1].tok[j] = op.keys[1].s

\* the single-label read collapses the axis: one axis fewer, the parent's
\* elements at the label's position, the parent's remaining Label Sets
SingleLabelCollapses ==
  SingleLabelCase
    => res = Collapsed(pre, IndexIn(pre.labels[1].tok, op.keys[1].s))

\* the labels read so far from the array built from origin, the one of the
\* read just made included
Chain == path \o <<op.keys[1].s>>

\* a chain of single-label reads that follows a branch of the mapping down
\* to a sub-mapping
ChainCase ==
  /\ origin # NoMap /\ op.name = "getitem" /\ op.bare /\ op.keys[1].t = "str"
  /\ HoldsPath(origin, Chain)
  /\ ~SubMapping(origin, Chain).leaf

\* every key of the chain stands in its dict where it stands in the Label
\* Set of its axis
ChainAligned ==
  \A i \in 1..Len(Chain) :
    IndexIn(SubMapping(origin, SubSeq(Chain, 1, i - 1)).keys, Chain[i])
      = IndexIn(InnerAllKeys(origin, <<>>, 0)[i], Chain[i])

\* the array built from the sub-mapping alone has the Label Sets that the
\* parent has on its remaining axes
ChainFull ==
  LET sub == FromDict(SubMapping(origin, Chain))
  IN sub.kind = "array" /\ sub.a.labels = Tail(pre.labels)

LabelRead == op.name = "getitem" /\ op.bare /\ op.keys[1].t = "str"

\* the Label Set holds the token (a set of integers holds no string)
Present(ls, s) ==
  ls.kind = "str" /\ \E j \in 1..Len(ls.tok) : ls.tok[j] = s

\* C11: Labels.find(token) returns the position i with labels[i] = token
\* when the token is present and signals a lookup (index) error when it is
\* absent; a read with an absent label key surfaces that error and leaves
\* the array's buffer and Label Sets unchanged.
C11_FindOrLookupError ==
  LabelRead =>
    LET ls == pre.labels[1]
        f == LabelsFind(ls, op.keys[1].s)
    IN IF Present(ls, op.keys[1].s)
       THEN f.err = "" /\ ls.tok[f.i + 1] = op.keys[1].s
       ELSE /\ f.err = "IndexError"
            /\ res = RErr("IndexError")
            /\ arr = pre

(***************************************************************************)
(* Properties of indexed assignment.                                       *)
(***************************************************************************)
\* an assignment that numpy carried out
WriteDone == op.name = "setitem" /\ res.kind = "none"

\* the values a read returned
Values(r) ==
  IF r.kind = "scalar" THEN {r.v}
  ELSE IF r.kind = "array" THEN {r.a.data[c] : c \in 1..Len(r.a.data)}
  ELSE {}

\* the read of the written keys returns the value, and the cells changed
\* are the cells the read addressed
WriteMatchesRead ==
  LET before == GetItem(pre, op.keys, op.bare)
      after == GetItem(arr, op.keys, op.bare)
  IN /\ after.kind \in {"array", "scalar"}
     /\ Values(after) \subseteq {op.val}
     /\ ~HasDup(pre.data) =>
          \A c \in 1..Len(pre.data) :
            arr.data[c] = IF pre.data[c] \in Values(before) THEN op.val
                          ELSE pre.data[c]

\* the shape and the Label Sets are kept, and a cell either keeps its value
\* or holds the written one
WriteFrame ==
  /\ arr.shape = pre.shape
  /\ arr.labels = pre.labels
  /\ \A c \in 1..Len(pre.data) : arr.data[c] \in {pre.data[c], op.val}

\* C12: an assignment a[keys] = v whose keys resolve writes exactly the
\* cells that a[keys] reads: reading a[keys] afterwards returns v, every
\* other cell keeps its value, and the shape and Label Sets are unchanged.
C12_WriteWhatIsRead ==
  WriteDone => WriteFrame /\ WriteMatchesRead

\* C12 as the code has it: the property holds for keys with at most one
\* list key; with several list keys the write is carried out within the
\* frame, but the read of the same keys is refused.
C12_WriteWhatIsReadOneList ==
  WriteDone =>
    /\ WriteFrame
    /\ IF Count(KeySeq(op), {"list"}) <= 1 THEN WriteMatchesRead
       ELSE GetItem(arr, op.keys, op.bare).kind = "error"

C12_Witness ==
  /\ WriteDone
  /\ Count(op.keys, {"list"}) = 1 /\ Count(op.keys, {"str"}) = 1
  /\ Values(GetItem(arr, op.keys, op.bare)) = {op.val}
  /\ \E c \in 1..Len(pre.data) : arr.data[c] = pre.data[c]
  /\ \E c \in 1..Len(pre.data) : arr.data[c] # pre.data[c]

(***************************************************************************)
(* LabeledArray.__array_ufunc__ for a call of a binary elementwise ufunc   *)
(* (np.add).  An operand is a LabeledArray (la), a plain ndarray, or a     *)
(* Python scalar (a plain operand of shape ()).                            *)
(***************************************************************************)
Operand(la, shape, data, labels) ==
  [la |-> la, shape |-> shape, data |-> data, labels |-> labels]

OfArray(a) == Operand(TRUE, a.shape, a.data, a.labels)

\* numpy's broadcasting of two shapes, aligned at their last axes
Broadcast(s1, s2) ==
  LET n == Max2(Len(s1), Len(s2))
      Ext(sh, d) == IF d - (n - Len(sh)) < 1 THEN 1 ELSE sh[d - (n - Len(sh))]
  IN [ok |-> \A d \in 1..n :
               Ext(s1, d) = Ext(s2, d) \/ Ext(s1, d) = 1 \/ Ext(s2, d) = 1,
      shape |-> SeqOf(n, LAMBDA d :
                  IF Ext(s1, d) = 1 THEN Ext(s2, d) ELSE Ext(s1, d))]

\* the cell of operand x that is broadcast to position r of the output
BroadcastCell(x, oshape, r) ==
  LET idx == Unravel(r, oshape)
      off == Len(oshape) - Len(x.shape)
      own == SeqOf(Len(x.shape), LAMBDA k :
               IF x.shape[k] = 1 THEN 0 ELSE idx[k + off])
  IN x.data[Ravel(own, x.shape) + 1]

\* __array_ufunc__(np.add, '__call__', x, y): the labels are those of the
\* first LabeledArray among the inputs, the buffer is numpy's
ArrayUfuncCall(x, y) ==
  LET labels == IF x.la THEN x.labels ELSE y.labels
      b == Broadcast(x.shape, y.shape)
  IN IF ~b.ok THEN RErr("ValueError")
     ELSE LabeledArrayNew(b.shape,
            SeqOf(Prod(b.shape), LAMBDA r :
              BroadcastCell(x, b.shape, r - 1) + BroadcastCell(y, b.shape, r - 1)),
            labels)

(***************************************************************************)
(* LabeledArray.__array_ufunc__ for method 'reduce' (np.add.reduce, which  *)
(* np.sum and np.mean call).  The axis argument is None, one integer or a  *)
(* tuple of integers.                                                      *)
(***************************************************************************)
AxNone == [t |-> "none", axes |-> <<>>]
AxInt(k) == [t |-> "int", axes |-> <<k>>]
AxTuple(q) == [t |-> "tuple", axes |-> q]

\* lines 202-208: the axes the loop over the labels walks
AxisSeq(axis, ndim) == IF axis.t = "none" THEN Range(ndim) ELSE axis.axes

\* "-".join(tokens)
RECURSIVE Join(_, _)
Join(tok, delim) ==
  IF tok = <<>> THEN ""
  ELSE IF Len(tok) = 1 THEN tok[1]
  ELSE tok[1] \o delim \o Join(Tail(tok), delim)

\* a Python list index: negative positions count from the end
PyIndex(k, n) == IF k < 0 THEN k + n ELSE k

PyInRange(k, n) == 0 - n <= k /\ k < n

\* lines 209-219: the loop over the reduced axes; i counts the Label Sets
\* popped so far and is subtracted from positive axis numbers only
RECURSIVE ReduceLabels(_, _, _, _, _)
ReduceLabels(labels, axes, k, i, keepdims) ==
  IF k > Len(axes) THEN [err |-> "", labels |-> labels]
  ELSE LET ax == IF axes[k] > 0 THEN axes[k] - i ELSE axes[k]
           at == PyIndex(ax, Len(labels)) + 1
       IN IF ~PyInRange(ax, Len(labels))
          THEN [err |-> "IndexError", labels |-> <<>>]
          ELSE IF keepdims
          THEN IF labels[at].kind = "int" /\ labels[at].tok # <<>>
               THEN [err |-> "TypeError", labels |-> <<>>]
               ELSE ReduceLabels(
                      [labels EXCEPT ![at] = LS(<<Join(labels[at].tok, "-")>>, "str")],
                      axes, k + 1, i, keepdims)
          ELSE ReduceLabels(SubSeq(labels, 1, at - 1)
                              \o SubSeq(labels, at + 1, Len(labels)),
                            axes, k + 1, i + 1, keepdims)

\* numpy's np.add.reduce over valid, distinct axes: the sum of the cells
\* that agree with the output position on every axis kept
NpReduce(a, axes, keepdims) ==
  LET n == Len(a.shape)
      red == {PyIndex(axes[k], n) + 1 : k \in 1..Len(axes)}
      kept == SelectSeq(SeqOf(n, LAMBDA d : d), LAMBDA d : d \notin red)
      oshape == IF keepdims
                THEN SeqOf(n, LAMBDA d : IF d \in red THEN 1 ELSE a.shape[d])
                ELSE SeqOf(Len(kept), LAMBDA j : a.shape[kept[j]])
      OutIdx(c) == LET idx == Unravel(c - 1, a.shape)
                   IN IF keepdims
                      THEN SeqOf(n, LAMBDA d : IF d \in red THEN 0 ELSE idx[d])
                      ELSE SeqOf(Len(kept), LAMBDA j : idx[kept[j]])
      Sum(r) == SumSeq(SeqOf(Len(a.data), LAMBDA c :
                  IF Ravel(OutIdx(c), oshape) = r - 1 THEN a.data[c] ELSE 0))
  IN Nd(oshape, SeqOf(Prod(oshape), Sum))

\* lines 221-228: a 0-d output is returned as the bare scalar, an array is
\* wrapped with the labels the loop left
ArrayUfuncOut(lab, out) ==
  IF lab.err # "" THEN RErr(lab.err)
  ELSE IF out.shape = <<>> THEN RScalar(out.data[1])
  ELSE LabeledArrayNew(out.shape, out.data, lab.labels)

\* __array_ufunc__(np.add, 'reduce', a, axis=axis, keepdims=keepdims)
ArrayUfuncReduce(a, axis, keepdims) ==
  The({ArrayUfuncOut(lab, out) :
         lab \in {ReduceLabels(a.labels, AxisSeq(axis, Len(a.shape)), 1, 0, keepdims)},
         out \in {NpReduce(a, AxisSeq(axis, Len(a.shape)), keepdims)}})

(***************************************************************************)
(* LabeledArray._reshape and label_reshape.                                *)
(***************************************************************************)
\* column-major addressing (numpy's F order)
RECURSIVE RavelF(_, _)
RavelF(idx, shape) ==
  IF idx = <<>> THEN 0
  ELSE Head(idx) + Head(shape) * RavelF(Tail(idx), Tail(shape))

RECURSIVE UnravelF(_, _)
UnravelF(flat, shape) ==
  IF shape = <<>> THEN <<>>
  ELSE <<flat % Head(shape)>> \o UnravelF(flat \div Head(shape), Tail(shape))

\* the position in the old shape of the element that a reshape in the
\* given order puts at idx of the new shape
OldIndex(idx, shape, oldshape, order) ==
  IF order = "F" THEN UnravelF(RavelF(idx, shape), oldshape)
  ELSE Unravel(Ravel(idx, shape), oldshape)

\* ndarray.reshape(*shape, order=order)
NpReshape(a, shape, order) ==
  IF Prod(shape) # Prod(a.shape) THEN NdErr("ValueError")
  ELSE Nd(shape, SeqOf(Prod(shape), LAMBDA r :
            a.data[Ravel(OldIndex(Unravel(r - 1, shape), shape, a.shape, order),
                         a.shape) + 1]))

\* the texts np.int64(text) accepts among the tokens of the model: the
\* decimal numerals
MaxNumeral == 99

IsNumeral(s) == \E k \in 0..MaxNumeral : StrOfNat(k) = s

\* _longest_common_substring(rows): the entries of the first row at the
\* columns in which every row agrees with the next one
LongestCommonSubstring(rows) ==
  LET cols == SeqOf(Len(rows[1]), LAMBDA c : c)
      same == SelectSeq(cols, LAMBDA c :
                \A k \in 1..(Len(rows) - 1) : rows[k][c] = rows[k + 1][c])
  IN SeqOf(Len(same), LAMBDA j : rows[1][same[j]])

\* lines 862-863: the distinct entries of one column, in the order of the
\* old Label Set of that axis
DistinctInOrder(rows, i, old) ==
  SelectSeq(old, LAMBDA t : \E k \in 1..Len(rows) : rows[k][i] = t)

\* lines 856-864: the label of index j of new axis i (both 1-based here)
ReshapedLabel(labels, shape, order, i, j) ==
  LET oldshape == SeqOf(Len(labels), LAMBDA d : Len(labels[d].tok))
      rest == [shape EXCEPT ![i] = 1]
      rows == SeqOf(Prod(rest), LAMBDA r :
                LET idx == [Unravel(r - 1, rest) EXCEPT ![i] = j - 1]
                    old == OldIndex(idx, shape, oldshape, order)
                IN SeqOf(Len(labels), LAMBDA d : labels[d].tok[old[d] + 1]))
      common == LongestCommonSubstring(rows)
  IN Join(IF common = <<>> THEN DistinctInOrder(rows, i, labels[i].tok)
          ELSE common, "-")

\* lines 865-869: the conversions back to the types of the old labels, in
\* the order in which set(types) yields them (intFirst: np.int64 before
\* np.str_); a failed conversion leaves the labels as they are
ConvertTypes(tok, kinds, intFirst) ==
  LET numeric == \A j \in 1..Len(tok) : IsNumeral(tok[j])
  IN IF "int" \notin kinds THEN "str"
     ELSE IF "str" \notin kinds THEN (IF numeric THEN "int" ELSE "str")
     ELSE IF intFirst THEN "str"
     ELSE IF numeric THEN "int" ELSE "str"

\* the loop of label_reshape over the new axes, from axis i on (1-based)
RECURSIVE ReshapeAxes(_, _, _, _, _)
ReshapeAxes(labels, shape, order, intFirst, i) ==
  IF i > Len(shape) THEN [err |-> "", labels |-> <<>>]
  ELSE IF i > Len(labels) THEN [err |-> "IndexError", labels |-> <<>>]
  ELSE LET kinds == {labels[d].kind : d \in 1..Len(labels)}
           tok == SeqOf(shape[i], LAMBDA j :
                    ReshapedLabel(labels, shape, order, i, j))
           here == IF Len(labels[i].tok) = 1 /\ shape[i] = 1
                   THEN LS(labels[i].tok, "str")
                   ELSE LS(tok, ConvertTypes(tok, kinds, intFirst))
           rest == ReshapeAxes(labels, shape, order, intFirst, i + 1)
       IN IF rest.err # "" THEN rest
          ELSE [err |-> "", labels |-> <<here>> \o rest.labels]

\* label_reshape(labels, shape, order)
LabelReshape(labels, shape, order, intFirst) ==
  IF \E d \in 1..Len(labels) : labels[d].tok = <<>>
  THEN [err |-> "IndexError", labels |-> <<>>]
  ELSE ReshapeAxes(labels, shape, order, intFirst, 1)

ReshapeOut(nd, lab) ==
  IF nd.err # "" THEN RErr(nd.err)
  ELSE IF lab.err # "" THEN RErr(lab.err)
  ELSE LabeledArrayNew(nd.shape, nd.data, lab.labels)

\* LabeledArray._reshape(shape, order)
Reshape(a, shape, order, intFirst) ==
  The({ReshapeOut(nd, lab) :
         nd \in {NpReshape(a, shape, order)},
         lab \in {IF Prod(shape) # Prod(a.shape)
                  THEN [err |-> "ValueError", labels |-> <<>>]
                  ELSE LabelReshape(a.labels, shape, order, intFirst)}})

(***************************************************************************)
(* The algebra of Labels: A @ B and decompose.  A Labels object of these   *)
(* operators carries its delimiter; a Labels array of any rank is a shape  *)
(* and its tokens in row-major order.                                      *)
(***************************************************************************)
\* Labels(tokens, delim)
Delimited(ls, delim) == [tok |-> ls.tok, kind |-> ls.kind, delimiter |-> delim]

LabelsNd(shape, tok, delim) ==
  [err |-> "", shape |-> shape, tok |-> tok, delimiter |-> delim]

LabelsErr(e) == [err |-> e, shape |-> <<>>, tok |-> <<>>, delimiter |-> ""]

\* Labels.__matmul__: every a + delimiter + b, as a |A| x |B| Labels made
\* by Labels.__new__ (np.max over the string lengths of an empty array
\* raises; the tokens must be unique)
LabelsMatmul(A, B) ==
  LET tok == SeqOf(Len(A.tok) * Len(B.tok), LAMBDA r :
               A.tok[((r - 1) \div Len(B.tok)) + 1] \o A.delimiter
                 \o B.tok[((r - 1) % Len(B.tok)) + 1])
  IN IF A.tok = <<>> \/ B.tok = <<>> THEN LabelsErr("ValueError")
     ELSE IF HasDup(tok) THEN LabelsErr("AssertionError")
     ELSE LabelsNd(<<Len(A.tok), Len(B.tok)>>, tok, "-")

\* np.take(self, j, axis=i).reshape(-1, self.ndim): the tokens at index j
\* of axis i (1-based here), in rows of ndim tokens
DecomposeRows(L, i, j) ==
  LET rest == [L.shape EXCEPT ![i] = 1]
      taken == SeqOf(Prod(rest), LAMBDA r :
                 L.tok[Ravel([Unravel(r - 1, rest) EXCEPT ![i] = j - 1],
                             L.shape) + 1])
      n == Len(L.shape)
  IN SeqOf(Len(taken) \div n, LAMBDA k :
       SeqOf(n, LAMBDA c : taken[(k - 1) * n + c]))

\* list(set(d[i] for d in row)): the distinct entries of column i, in the
\* order of the set's iteration, which is not fixed by the language: the
\* order of first appearance or (rev) its reverse
DistinctOf(rows, i, rev) ==
  LET col == SeqOf(Len(rows), LAMBDA k : rows[k][i])
      firsts == SelectSeq(SeqOf(Len(col), LAMBDA k : k), LAMBDA k :
                  \A m \in 1..(k - 1) : col[m] # col[k])
      inOrder == SeqOf(Len(firsts), LAMBDA k : col[firsts[k]])
  IN IF rev THEN SeqOf(Len(inOrder), LAMBDA k : inOrder[Len(inOrder) + 1 - k])
     ELSE inOrder

\* lines 766-770 for index j of axis i
DecomposedLabel(L, i, j, rev) ==
  LET rows == DecomposeRows(L, i, j)
      common == LongestCommonSubstring(rows)
  IN Join(IF common = <<>> THEN DistinctOf(rows, i, rev) ELSE common,
          L.delimiter)

\* Labels.decompose: one Labels per axis; the reshape of line 766 fails
\* when the tokens taken do not fill rows of ndim entries
LabelsDecompose(L, rev) ==
  LET n == Len(L.shape)
      Taken(i) == Prod(L.shape) \div L.shape[i]
      made == SeqOf(n, LAMBDA i :
                LS(SeqOf(L.shape[i], LAMBDA j : DecomposedLabel(L, i, j, rev)),
                   "str"))
  IN IF \E i \in 1..n : L.shape[i] > 0 /\ Taken(i) % n # 0
     THEN [err |-> "ValueError", labels |-> <<>>]
     ELSE IF \E i \in 1..n : L.shape[i] > 0 /\ Taken(i) = 0
     THEN [err |-> "IndexError", labels |-> <<>>]
     ELSE IF \E i \in 1..n : HasDup(made[i].tok)
     THEN [err |-> "AssertionError", labels |-> <<>>]
     ELSE [err |-> "", labels |-> made]

(***************************************************************************)
(* LabeledArray.combine(levels).                                           *)
(***************************************************************************)
\* np.take(a, axis=axis, indices=i): the slice at index i of the axis
\* (axis 1-based here)
NpTake(a, axis, i) ==
  LET shape == SubSeq(a.shape, 1, axis - 1)
                 \o SubSeq(a.shape, axis + 1, Len(a.shape))
  IN Nd(shape, SeqOf(Prod(shape), LAMBDA r :
          LET idx == Unravel(r - 1, shape)
          IN a.data[Ravel(SubSeq(idx, 1, axis - 1) \o <<i>>
                            \o SubSeq(idx, axis, Len(idx)), a.shape) + 1]))

CombineOut(a, lo, hi, prod, nd) ==
  IF prod.err # "" THEN RErr(prod.err)
  ELSE IF nd.err # "" THEN RErr(nd.err)
  ELSE LabeledArrayNew(nd.shape, nd.data,
         [SubSeq(a.labels, 1, lo) \o SubSeq(a.labels, lo + 2, Len(a.labels))
            EXCEPT ![hi] = LS(prod.tok, "str")])

\* combine((lo, hi)): the assertions, the Label Set of the product at
\* position hi - 1 of the remaining labels, the slices along axis lo
\* concatenated along axis hi - 1
Combine(a, lo, hi) ==
  IF lo < 0 \/ hi <= lo THEN RErr("AssertionError")
  ELSE IF lo >= Len(a.shape) \/ hi >= Len(a.shape) THEN RErr("IndexError")
  ELSE The({CombineOut(a, lo, hi, prod, nd) :
              prod \in {LabelsMatmul(Delimited(a.labels[lo + 1], "-"),
                                     Delimited(a.labels[hi + 1], "-"))},
              nd \in {ConcatenateArrays(
                        SeqOf(a.shape[lo + 1], LAMBDA i : NpTake(a, lo + 1, i - 1)),
                        FALSE, hi - 1)}})

(***************************************************************************)
(* The numeric and label operations as actions.  The arrays they are       *)
(* applied to are built from the shapes and labels below, which add an     *)
(* empty two-dimensional array and labels that hold the delimiter.         *)
(***************************************************************************)
AlgebraShapes == Shapes \cup {<<0, MaxExt>>}

JoinedLabels == {LS(<<"x", "x-y">>, "str"), LS(<<"y-y", "y">>, "str")}

AlgebraLabelInputs == LabelInputs \cup JoinedLabels

\* the other operand of a binary ufunc: a Python scalar, a plain ndarray,
\* or a LabeledArray with default or with named labels
Operands ==
  {Operand(FALSE, <<>>, <<1>>, <<>>)}
  \cup {Operand(FALSE, sh, Arange(sh), <<>>) : sh \in Shapes}
  \cup {OfArray(LabeledArrayNew(sh, Arange(sh), <<>>).a) : sh \in Shapes}
  \cup {OfArray(LabeledArrayNew(sh, Arange(sh),
                  SeqOf(Len(sh), LAMBDA d : NamedLabels(sh[d]))).a) :
          sh \in Shapes}

\* the axis arguments of a reduction of an array of rank n: None, one axis
\* number, or a tuple of axis numbers naming different axes
AxisArgs(n) ==
  {AxNone} \cup {AxInt(k) : k \in (0 - n)..(n - 1)}
  \cup {AxTuple(q) : q \in {r \in SeqsUpTo((0 - n)..(n - 1), n) :
          /\ Len(r) >= 2
          /\ \A i, j \in 1..Len(r) :
               i < j => PyIndex(r[i], n) # PyIndex(r[j], n)}}

\* the shapes of exactly r axes with count elements
RECURSIVE ShapesOf(_, _)
ShapesOf(count, r) ==
  IF r = 0 THEN (IF count = 1 THEN {<<>>} ELSE {})
  ELSE UNION {{<<d>> \o t : t \in ShapesOf(count \div d, r - 1)} :
                d \in {e \in 1..count : count % e = 0}}

\* the target shapes of a reshape of count elements
TargetShapes(count) ==
  IF count = 0 THEN {<<0>>}
  ELSE UNION {ShapesOf(count, r) : r \in 1..MaxRank}

\* the Labels a caller may build: tokens that Labels.__new__ accepts, with
\* either delimiter
Delimiters == {"-", "+"}

\* the tokens after the first MaxExt ones: a Label Set that shares no token
\* with NamedLabels(MaxExt)
OtherLabels == LS(SubSeq(Tokens, MaxExt + 1, Len(Tokens)), "str")

LabelOperands ==
  {Delimited(ls, d) :
     ls \in {l \in AlgebraLabelInputs \cup {OtherLabels}
                  \cup {RangeLabels(n) : n \in 1..MaxExt} :
               LabelsNew(l).err = ""},
     d \in Delimiters}

\* results of the operations on Labels: a Labels array (its shape, and its
\* tokens as the buffer), or a list of one-dimensional Labels
RLabels(L) ==
  IF L.err # "" THEN RErr(L.err)
  ELSE [kind |-> "labels", a |-> Arr(L.shape, L.tok, <<>>), v |-> 0, err |-> ""]

RLabelList(d) ==
  IF d.err # "" THEN RErr(d.err)
  ELSE [kind |-> "labellist", a |-> Arr(<<>>, <<>>, d.labels), v |-> 0,
        err |-> ""]

\* res = LabeledArray(np.arange(n).reshape(shape), supplied)
DoBuild ==
  /\ Idle /\ arr = NoArr
  /\ \E shape \in AlgebraShapes,
        supplied \in SeqsUpTo(AlgebraLabelInputs, MaxRank) :
       /\ res' = LabeledArrayNew(shape, Arange(shape), supplied)
       /\ op' = Op("construct", <<>>, FALSE, 0, shape, supplied)
  /\ UNCHANGED <<arr, pre, gen, origin, path, arg>>

\* res = np.add(arr, y) or np.add(y, arr)
DoUfunc ==
  /\ Idle /\ arr # NoArr
  /\ \E y \in Operands, swapped \in BOOLEAN :
       /\ res' = IF swapped THEN ArrayUfuncCall(y, OfArray(arr))
                 ELSE ArrayUfuncCall(OfArray(arr), y)
       /\ arg' = [other |-> y, swapped |-> swapped]
  /\ op' = Op("ufunc", <<>>, FALSE, 0, <<>>, <<>>)
  /\ pre' = arr
  /\ UNCHANGED <<arr, gen, origin, path>>

\* res = np.add.reduce(arr, axis=axis, keepdims=keepdims)
DoReduce ==
  /\ Idle /\ arr # NoArr
  /\ \E axis \in AxisArgs(Len(arr.shape)), keepdims \in BOOLEAN :
       /\ res' = ArrayUfuncReduce(arr, axis, keepdims)
       /\ arg' = [axis |-> axis, keepdims |-> keepdims]
  /\ op' = Op("reduce", <<>>, FALSE, 0, <<>>, <<>>)
  /\ pre' = arr
  /\ UNCHANGED <<arr, gen, origin, path>>

\* res = arr._reshape(shape, order)
DoReshape ==
  /\ Idle /\ arr # NoArr
  /\ \E shape \in TargetShapes(Prod(arr.shape)), order \in {"C", "F"},
        intFirst \in BOOLEAN :
       /\ res' = Reshape(arr, shape, order, intFirst)
       /\ arg' = [order |-> order, intFirst |-> intFirst]
       /\ op' = Op("reshape", <<>>, FALSE, 0, shape, <<>>)
  /\ pre' = arr
  /\ UNCHANGED <<arr, gen, origin, path>>

\* res = arr.combine((lo, hi))
DoCombine ==
  /\ Idle /\ arr # NoArr
  /\ \E lo, hi \in 0..(MaxRank - 1) :
       /\ res' = Combine(arr, lo, hi)
       /\ arg' = [lo |-> lo, hi |-> hi]
  /\ op' = Op("combine", <<>>, FALSE, 0, <<>>, <<>>)
  /\ pre' = arr
  /\ UNCHANGED <<arr, gen, origin, path>>

AlgebraNext ==
  \/ DoBuild
  \/ UseConstructed
  \/ DoUfunc
  \/ DoReduce
  \/ DoReshape
  \/ DoCombine

AlgebraSpec == Init /\ [][AlgebraNext]_vars

\* res = A @ B
DoMatmul ==
  /\ Idle /\ arr = NoArr
  /\ \E A, B \in LabelOperands :
       /\ res' = RLabels(LabelsMatmul(A, B))
       /\ arg' = [A |-> A, B |-> B]
  /\ op' = Op("matmul", <<>>, FALSE, 0, <<>>, <<>>)
  /\ UNCHANGED <<arr, pre, gen, origin, path>>

\* res = (A @ B).decompose()
DoDecompose ==
  /\ op.name = "matmul" /\ res.kind = "labels"
  /\ \E rev \in BOOLEAN :
       res' = RLabelList(LabelsDecompose(
                LabelsNd(res.a.shape, res.a.data, "-"), rev))
  /\ op' = Op("decompose", <<>>, FALSE, 0, <<>>, <<>>)
  /\ UNCHANGED <<arr, pre, gen, origin, path, arg>>

LabelsNext ==
  \/ DoMatmul
  \/ DoDecompose

LabelsSpec == Init /\ [][LabelsNext]_vars

(***************************************************************************)
(* Properties of the elementwise and reducing operations.                  *)
(***************************************************************************)
\* the operands of the last ufunc call, in the order given
UfuncInputs ==
  IF arg.swapped THEN <<arg.other, OfArray(pre)>>
  ELSE <<OfArray(pre), arg.other>>

\* the first LabeledArray among them
FirstLabeled ==
  IF UfuncInputs[1].la THEN UfuncInputs[1] ELSE UfuncInputs[2]

\* an elementwise call on operands that numpy can broadcast
UfuncCase ==
  /\ op.name = "ufunc"
  /\ Broadcast(UfuncInputs[1].shape, UfuncInputs[2].shape).ok

\* C13: the result of an elementwise operation on broadcast-compatible
\* operands, in either operand order, carries the Label Sets of the first
\* LabeledArray operand, and the operands' Label Sets are left unchanged.
C13_UfuncKeepsFirstLabels ==
  UfuncCase =>
    /\ res.kind = "array"
    /\ res.a.labels = FirstLabeled.labels
    /\ arr = pre

\* the axes (1-based) that the last reduction was asked to reduce
ReducedAxes ==
  LET n == Len(pre.shape)
      axes == AxisSeq(arg.axis, n)
  IN {PyIndex(axes[k], n) + 1 : k \in 1..Len(axes)}

KeptAxes ==
  SelectSeq(SeqOf(Len(pre.shape), LAMBDA d : d), LAMBDA d : d \notin ReducedAxes)

ReduceCase(keepdims) == op.name = "reduce" /\ arg.keepdims = keepdims

\* C14: a default reduction over a set of axes (one axis or a tuple in any
\* order, positive or negative axis numbers) returns the original Label
\* Sets with exactly the reduced axes removed and the others in their
\* original order (the bare scalar when no axis is left).
C14_ReduceDropsLabels ==
  ReduceCase(FALSE) =>
    IF KeptAxes = <<>> THEN res.kind = "scalar"
    ELSE /\ res.kind = "array"
         /\ res.a.labels = SeqOf(Len(KeptAxes), LAMBDA j : pre.labels[KeptAxes[j]])

\* C15: a dimension-preserving reduction returns a result in which every
\* reduced axis has extent 1 and the single label that joins the original
\* tokens of the axis, in order, with the delimiter, for string labels and
\* for default integer labels; the other axes keep their Label Sets.
C15_KeepdimsJoinsLabels ==
  ReduceCase(TRUE) =>
    /\ res.kind = "array"
    /\ Len(res.a.shape) = Len(pre.shape)
    /\ \A d \in 1..Len(pre.shape) :
         IF d \in ReducedAxes
         THEN /\ res.a.shape[d] = 1
              /\ res.a.labels[d].tok = <<Join(pre.labels[d].tok, "-")>>
         ELSE res.a.labels[d] = pre.labels[d]

(***************************************************************************)
(* Properties of reshape.                                                  *)
(***************************************************************************)
\* C16: a reshape to any target shape with the element count of the array
\* (same rank, fewer or more axes; row-major or column-major) returns a
\* LabeledArray of exactly that shape with one recomputed Label Set per new
\* axis, each as long as the new extent.
C16_ReshapeGivesShape ==
  op.name = "reshape" =>
    /\ res.kind = "array"
    /\ res.a.shape = op.shape
    /\ WellShaped(res.a)

\* C17: reshaping an array to its own current shape returns Label Sets
\* identical to the original ones on every axis.
C17_TrivialReshapeKeepsLabels ==
  (op.name = "reshape" /\ op.shape = pre.shape) =>
    /\ res.kind = "array"
    /\ res.a.labels = pre.labels

(***************************************************************************)
(* Properties of the algebra of Labels and of combine.                     *)
(***************************************************************************)
\* C18: A @ B yields |A|*|B| tokens in row-major order, the token at
\* position i*|B|+j being A[i] + delimiter + B[j] with the delimiter carried
\* by A, for all Label Sets A and B.
C18_MatmulRowMajor ==
  op.name = "matmul" =>
    /\ res.kind = "labels"
    /\ Len(res.a.data) = Len(arg.A.tok) * Len(arg.B.tok)
    /\ \A i \in 0..(Len(arg.A.tok) - 1), j \in 0..(Len(arg.B.tok) - 1) :
         res.a.data[i * Len(arg.B.tok) + j + 1]
           = arg.A.tok[i + 1] \o arg.A.delimiter \o arg.B.tok[j + 1]

\* the product of two Label Sets without a common token was decomposed
UniqueFanOut ==
  /\ op.name = "decompose"
  /\ arg.A.tok = NamedLabels(MaxExt).tok
  /\ arg.B.tok = OtherLabels.tok

\* C20: decompose inverts the product when the fan-out is globally unique:
\* decomposing the product of {a,b} and {c,d,e} against its shape (2,3)
\* recovers exactly the Label Sets {a,b} and {c,d,e}.
C20_DecomposeInvertsCombine ==
  UniqueFanOut =>
    /\ res.kind = "labellist"
    /\ Len(res.a.labels) = 2
    /\ res.a.labels[1].tok = arg.A.tok
    /\ res.a.labels[2].tok = arg.B.tok

\* combine was called with two axes of the array, the lower one first
CombineCase ==
  /\ op.name = "combine"
  /\ arg.lo < arg.hi
  /\ arg.hi < Len(pre.shape)

WithoutAxis(q, lo) == SubSeq(q, 1, lo) \o SubSeq(q, lo + 2, Len(q))

\* where the element at idx of the original array is expected after combine
CombinedIndex(idx, shape, lo, hi) ==
  [WithoutAxis(idx, lo) EXCEPT ![hi] = idx[lo + 1] * shape[hi + 1] + idx[hi + 1]]

\* C19: combine((lo, hi)) with 0 <= lo < hi removes axis lo, gives the
\* former axis hi the extent shape[lo]*shape[hi] and the product of the two
\* Label Sets, keeps all other axes and Label Sets, and places every
\* original element at the position its combined label names.
C19_CombineFoldsAxes ==
  CombineCase =>
    /\ res.kind = "array"
    /\ res.a.shape = [WithoutAxis(pre.shape, arg.lo) EXCEPT
                        ![arg.hi] = pre.shape[arg.lo + 1] * pre.shape[arg.hi + 1]]
    /\ Len(res.a.labels) = Len(pre.shape) - 1
    /\ \A k \in 1..Len(res.a.labels) :
         IF k = arg.hi
         THEN /\ Len(res.a.labels[k].tok)
                   = pre.shape[arg.lo + 1] * pre.shape[arg.hi + 1]
              /\ \A i \in 0..(pre.shape[arg.lo + 1] - 1),
                    j \in 0..(pre.shape[arg.hi + 1] - 1) :
                   res.a.labels[k].tok[i * pre.shape[arg.hi + 1] + j + 1]
                     = pre.labels[arg.lo + 1].tok[i + 1] \o "-"
                         \o pre.labels[arg.hi + 1].tok[j + 1]
         ELSE res.a.labels[k] = WithoutAxis(pre.labels, arg.lo)[k]
    /\ \A f \in 0..(Prod(pre.shape) - 1) :
         res.a.data[Ravel(CombinedIndex(Unravel(f, pre.shape), pre.shape,
                                        arg.lo, arg.hi), res.a.shape) + 1]
           = pre.data[f + 1]

(***************************************************************************)
(* Operations that derive an array from one whose buffer holds NaN:        *)
(* dropna, appended, equality, transposition, prepend_labels.              *)
(***************************************************************************)
\* np.all(np.isnan(a), axis=all axes but d)[j]: every cell of the
\* hyperplane at index j of axis d (1-based d, 0-based j) is NaN
HyperplaneNan(a, d, j) ==
  \A r \in 1..Prod(a.shape) :
    Unravel(r - 1, a.shape)[d] = j => a.data[r] = NaN

\* an index is dropped as soon as one cell of its hyperplane is NaN
DropnaKeptAnyNan(a, d) ==
  SelectSeq(Range(a.shape[d]), LAMBDA j :
    \A r \in 1..Prod(a.shape) :
      Unravel(r - 1, a.shape)[d] = j => a.data[r] # NaN)

\* the positions of ~mask on axis d, in order
DropnaKept(a, d) ==
  SelectSeq(Range(a.shape[d]), LAMBDA j : ~HyperplaneNan(a, d, j))

\* the buffer read through np.ix_ of the kept positions, and the labels of
\* the kept positions (an axis without a dropped index keeps its Labels)
DropnaOut(a, kept) ==
  LET n == Len(a.shape)
      shape == SeqOf(n, LAMBDA d : Len(kept[d]))
      data == SeqOf(Prod(shape), LAMBDA r :
                The({a.data[Ravel(SeqOf(n, LAMBDA d : kept[d][idx[d] + 1]),
                                  a.shape) + 1] :
                       idx \in {Unravel(r - 1, shape)}}))
      labels == SeqOf(n, LAMBDA d :
                  IF Len(kept[d]) = a.shape[d] THEN a.labels[d]
                  ELSE LS(SeqOf(Len(kept[d]), LAMBDA k :
                               a.labels[d].tok[kept[d][k] + 1]),
                          IF kept[d] = <<>> THEN "int" ELSE a.labels[d].kind))
  IN LabeledArrayNew(shape, data, labels)

\* LabeledArray.dropna
Dropna(a) ==
  The({DropnaOut(a, kept) :
         kept \in {SeqOf(Len(a.shape), LAMBDA d : DropnaKept(a, d))}})

\* the buffers of a shape whose cells hold their position or NaN
NanBuffers(shape) ==
  {SeqOf(Prod(shape), LAMBDA r : IF r \in holes THEN NaN ELSE r - 1) :
     holes \in SUBSET (1..Prod(shape))}

\* res = LabeledArray(buffer, labels) with default or named labels
DoBuildData ==
  /\ Idle /\ arr = NoArr
  /\ \E shape \in AlgebraShapes, named \in BOOLEAN :
       \E data \in NanBuffers(shape) :
         LET supplied == IF named
                         THEN SeqOf(Len(shape), LAMBDA d :
                                IF shape[d] = 0 THEN LS(<<>>, "int")
                                ELSE NamedLabels(shape[d]))
                         ELSE <<>>
         IN /\ res' = LabeledArrayNew(shape, data, supplied)
            /\ op' = Op("construct", <<>>, FALSE, 0, shape, supplied)
  /\ UNCHANGED <<arr, pre, gen, origin, path, arg>>

\* res = arr.dropna()
DoDropna ==
  /\ Idle /\ arr # NoArr
  /\ res' = Dropna(arr)
  /\ op' = Op("dropna", <<>>, FALSE, 0, <<>>, <<>>)
  /\ pre' = arr
  /\ UNCHANGED <<arr, gen, origin, path, arg>>

\* an element of a Labels array that was put into a list of labels by
\* itself: Labels() makes a 0-d array of it, which has no len()
Label0d(tok, kind) == [tok |-> <<tok>>, kind |-> kind, scalar |-> TRUE]

\* self.labels += arr.labels[axis]: the list of the receiver is extended
\* in place by the elements of the other array's Labels
AppendedLabels(a, b, axis) ==
  LET added == b.labels[PyIndex(axis, Len(b.labels)) + 1]
  IN a.labels \o SeqOf(Len(added.tok), LAMBDA i :
                   Label0d(added.tok[i], added.kind))

\* LabeledArray(new_array, self.labels) on the extended list: len() of a
\* 0-d Labels raises TypeError inside the closing assertion
AppendedOut(nd, labels) ==
  IF nd.err # "" THEN RErr(nd.err)
  ELSE IF \E i \in 1..Len(labels) : "scalar" \in DOMAIN labels[i]
  THEN RErr("TypeError")
  ELSE LabeledArrayNew(nd.shape, nd.data, labels)

\* a.appended(b, axis): the result, and the labels the receiver is left with
Appended(a, b, axis) ==
  IF ~PyInRange(axis, Len(b.labels))
  THEN [res |-> RErr("IndexError"), labels |-> a.labels]
  ELSE The({[res |-> AppendedOut(
                       ConcatenateArrays(<<Nd(a.shape, a.data),
                                           Nd(b.shape, b.data)>>, FALSE, axis),
                       labels),
             labels |-> labels] :
              labels \in {AppendedLabels(a, b, axis)}})

\* the arrays given to a binary operation as its second operand
OtherArrays ==
  {LabeledArrayNew(sh, Arange(sh), <<>>).a : sh \in AlgebraShapes}
  \cup {LabeledArrayNew(sh, Arange(sh),
           SeqOf(Len(sh), LAMBDA d : NamedLabels(sh[d]))).a : sh \in Shapes}
  \cup {LabeledArrayNew(<<Len(OtherLabels.tok)>>,
           Arange(<<Len(OtherLabels.tok)>>), <<OtherLabels>>).a}

\* res = arr.appended(b, axis)
DoAppended ==
  /\ Idle /\ arr # NoArr
  /\ \E b \in OtherArrays, axis \in (0 - MaxRank)..(MaxRank - 1) :
       /\ res' = Appended(arr, b, axis).res
       /\ arr' = [arr EXCEPT !.labels = Appended(arr, b, axis).labels]
       /\ arg' = [other |-> b, axis |-> axis]
  /\ op' = Op("appended", <<>>, FALSE, 0, <<>>, <<>>)
  /\ pre' = arr
  /\ UNCHANGED <<gen, origin, path>>

RBool(b) ==
  [kind |-> "bool", a |-> NoArr, v |-> IF b THEN 1 ELSE 0, err |-> ""]

\* np.array_equal(self, other, True): same shape, NaN at the same cells and
\* equal values elsewhere (NaN is one value of the model's buffers)
ArrayEqual(a, b) == a.shape = b.shape /\ a.data = b.data

\* self.labels == other.labels, the comparison of two lists of Labels from
\* position i on: an item that is the same object on both sides is equal;
\* otherwise the items are compared element by element and the truth value
\* of that array is taken, which exists for one element, is an error for
\* several, and for none is False or an error depending on the numpy build
RECURSIVE LabelListsEqual(_, _, _, _, _)
LabelListsEqual(la, lb, same, emptyRaises, i) ==
  IF i > Len(la) THEN RBool(TRUE)
  ELSE IF same THEN LabelListsEqual(la, lb, same, emptyRaises, i + 1)
  ELSE IF Len(la[i].tok) >= 2 THEN RErr("ValueError")
  ELSE IF Len(la[i].tok) = 0
  THEN (IF emptyRaises THEN RErr("ValueError") ELSE RBool(FALSE))
  ELSE IF la[i] = lb[i] THEN LabelListsEqual(la, lb, same, emptyRaises, i + 1)
  ELSE RBool(FALSE)

\* LabeledArray.__eq__(other) for a LabeledArray other; same tells that
\* other is the receiver itself
ArrayEq(a, b, same, emptyRaises) ==
  IF ~ArrayEqual(a, b) THEN RBool(FALSE)
  ELSE LabelListsEqual(a.labels, b.labels, same, emptyRaises, 1)

\* LabeledArray.__ne__(other)
ArrayNe(a, b, same, emptyRaises) ==
  The({IF e.kind = "bool" THEN RBool(e.v = 0) ELSE e :
         e \in {ArrayEq(a, b, same, emptyRaises)}})

\* the arrays a receiver is compared with: itself, arrays constructed
\* separately from its own buffer and labels, from its own buffer with
\* default labels, from one changed cell, and other arrays
ComparedWith(a) ==
  {[other |-> a, same |-> TRUE]}
  \cup {[other |-> b, same |-> FALSE] :
          b \in {a, LabeledArrayNew(a.shape, a.data, <<>>).a}
                \cup {[a EXCEPT !.data[r] = Len(a.data)] : r \in 1..Len(a.data)}
                \cup {LabeledArrayNew(sh, Arange(sh), <<>>).a : sh \in Shapes}}

\* res = (arr == b) or (arr != b)
DoEq ==
  /\ Idle /\ arr # NoArr
  /\ \E c \in ComparedWith(arr), ne \in BOOLEAN, emptyRaises \in BOOLEAN :
       /\ res' = IF ne THEN ArrayNe(arr, c.other, c.same, emptyRaises)
                 ELSE ArrayEq(arr, c.other, c.same, emptyRaises)
       /\ arg' = [other |-> c.other, same |-> c.same, ne |-> ne]
  /\ op' = Op("eq", <<>>, FALSE, 0, <<>>, <<>>)
  /\ pre' = arr
  /\ UNCHANGED <<arr, gen, origin, path>>

\* a transposition that permutes the shape but leaves the cells in place
NpPermuteShapeOnly(a, perm) ==
  Nd(SeqOf(Len(perm), LAMBDA d : a.shape[perm[d]]), a.data)

\* ndarray.transpose / ndarray.swapaxes: axis perm[d] of a becomes axis d
NpPermute(a, perm) ==
  LET n == Len(perm)
      shape == SeqOf(n, LAMBDA d : a.shape[perm[d]])
      Inv(e) == CHOOSE d \in 1..n : perm[d] = e
  IN Nd(shape, SeqOf(Prod(shape), LAMBDA r :
          The({a.data[Ravel(SeqOf(n, LAMBDA e : idx[Inv(e)]), a.shape) + 1] :
                 idx \in {Unravel(r - 1, shape)}})))

Reversed(n) == SeqOf(n, LAMBDA d : n + 1 - d)

\* LabeledArray.T
Transpose(a) ==
  The({LabeledArrayNew(nd.shape, nd.data,
                       SeqOf(Len(a.labels), LAMBDA d :
                         a.labels[Len(a.labels) + 1 - d])) :
         nd \in {NpPermute(a, Reversed(Len(a.shape)))}})

Swapped(n, i, j) == [[d \in 1..n |-> d] EXCEPT ![i] = j, ![j] = i]

\* LabeledArray.swapaxes(axis1, axis2)
Swapaxes(a, axis1, axis2) ==
  IF ~PyInRange(axis1, Len(a.labels)) \/ ~PyInRange(axis2, Len(a.labels))
  THEN RErr("IndexError")
  ELSE The({LabeledArrayNew(NpPermute(a, perm).shape, NpPermute(a, perm).data,
                            SeqOf(Len(perm), LAMBDA d : a.labels[perm[d]])) :
              perm \in {Swapped(Len(a.labels),
                                PyIndex(axis1, Len(a.labels)) + 1,
                                PyIndex(axis2, Len(a.labels)) + 1)}})

\* res = arr.T
DoTranspose ==
  /\ Idle /\ arr # NoArr
  /\ res' = Transpose(arr)
  /\ arg' = [perm |-> Reversed(Len(arr.shape))]
  /\ op' = Op("T", <<>>, FALSE, 0, <<>>, <<>>)
  /\ pre' = arr
  /\ UNCHANGED <<arr, gen, origin, path>>

\* res = arr.swapaxes(axis1, axis2)
DoSwapaxes ==
  /\ Idle /\ arr # NoArr
  /\ \E axis1, axis2 \in (0 - MaxRank)..(MaxRank - 1) :
       /\ res' = Swapaxes(arr, axis1, axis2)
       /\ arg' = [axis1 |-> axis1, axis2 |-> axis2]
  /\ op' = Op("swapaxes", <<>>, FALSE, 0, <<>>, <<>>)
  /\ pre' = arr
  /\ UNCHANGED <<arr, gen, origin, path>>

\* tuple(pre + lab for lab in self.labels[level]): a Python tuple of
\* the prefixed tokens, which takes the place of the Labels in the list
PrefixedTuple(ls, prefix) ==
  [tok |-> SeqOf(Len(ls.tok), LAMBDA i : prefix \o ls.tok[i]), kind |-> "tuple"]

\* Labels(l, delimiter) of the tuples and Labels a list of labels holds
FromTuples(labels) ==
  SeqOf(Len(labels), LAMBDA d :
    IF labels[d].kind = "tuple"
    THEN LS(labels[d].tok, IF labels[d].tok = <<>> THEN "int" ELSE "str")
    ELSE labels[d])

\* a.prepend_labels(pre, level): the result, and the labels the receiver
\* is left with; a string cannot be added to an integer label
PrependLabels(a, prefix, level) ==
  IF level < 0 \/ level >= Len(a.shape)
  THEN [res |-> RErr("AssertionError"), labels |-> a.labels]
  ELSE IF a.labels[level + 1].kind = "int" /\ a.labels[level + 1].tok # <<>>
  THEN [res |-> RErr("TypeError"), labels |-> a.labels]
  ELSE The({[res |-> LabeledArrayNew(a.shape, a.data, FromTuples(labels)),
             labels |-> labels] :
              labels \in {[a.labels EXCEPT ![level + 1] =
                             PrefixedTuple(@, prefix)]}})

Prefixes == {"p-"}

\* res = arr.prepend_labels(prefix, level)
DoPrependLabels ==
  /\ Idle /\ arr # NoArr
  /\ \E prefix \in Prefixes, level \in (0 - 1)..MaxRank :
       /\ res' = PrependLabels(arr, prefix, level).res
       /\ arr' = [arr EXCEPT !.labels = PrependLabels(arr, prefix, level).labels]
       /\ arg' = [prefix |-> prefix, level |-> level]
  /\ op' = Op("prepend_labels", <<>>, FALSE, 0, <<>>, <<>>)
  /\ pre' = arr
  /\ UNCHANGED <<gen, origin, path>>

DerivedNext ==
  \/ DoBuildData
  \/ UseConstructed
  \/ DoDropna
  \/ DoAppended
  \/ DoEq
  \/ DoTranspose
  \/ DoSwapaxes
  \/ DoPrependLabels

DerivedSpec == Init /\ [][DerivedNext]_vars

(***************************************************************************)
(* Properties of the derived arrays.                                       *)
(***************************************************************************)
\* the positions of axis d of the receiver whose hyperplane has a cell
\* that is not NaN, in order
Survivors(d) ==
  SelectSeq(Range(pre.shape[d]), LAMBDA j :
    \E r \in 1..Prod(pre.shape) :
      Unravel(r - 1, pre.shape)[d] = j /\ pre.data[r] # NaN)

\* C21: dropna removes, on every axis, exactly the indices whose whole
\* hyperplane is NaN: the Label Set of each axis shrinks to the labels of
\* the kept indices in order, every non-NaN element is still found under
\* the same label tuple, and the result has no all-NaN hyperplane.
C21_DropnaRemovesNanPlanes ==
  op.name = "dropna" =>
    /\ res.kind = "array"
    /\ Len(res.a.shape) = Len(pre.shape)
    /\ \A d \in 1..Len(pre.shape) :
         /\ res.a.shape[d] = Len(Survivors(d))
         /\ res.a.labels[d].tok
              = SeqOf(Len(Survivors(d)), LAMBDA k :
                  pre.labels[d].tok[Survivors(d)[k] + 1])
         /\ \A j \in 0..(res.a.shape[d] - 1) : ~HyperplaneNan(res.a, d, j)
    /\ \A r \in 1..Prod(pre.shape) :
         pre.data[r] # NaN =>
           \E q \in 1..Prod(res.a.shape) :
             /\ res.a.data[q] = pre.data[r]
             /\ \A d \in 1..Len(pre.shape) :
                  res.a.labels[d].tok[Unravel(q - 1, res.a.shape)[d] + 1]
                    = pre.labels[d].tok[Unravel(r - 1, pre.shape)[d] + 1]
    /\ Dropna(res.a) = res

\* dropna removed an index of one axis and kept one of the same axis
C21_Witness ==
  /\ op.name = "dropna" /\ res.kind = "array"
  /\ \E d \in 1..Len(pre.shape) :
       0 < res.a.shape[d] /\ res.a.shape[d] < pre.shape[d]

\* a was appended to along an axis both arrays have
AppendedCase ==
  /\ op.name = "appended"
  /\ Len(arg.other.shape) = Len(pre.shape)
  /\ PyInRange(arg.axis, Len(pre.shape))

\* C22: a.appended(b, axis) returns a LabeledArray whose extent on the
\* chosen axis is the sum of the two extents, whose Label Set on that axis
\* is a's labels followed by b's, whose other axes have the larger extent,
\* and which holds a's elements followed by b's along that axis.
C22_AppendedJoinsAlongAxis ==
  AppendedCase =>
    LET k == PyIndex(arg.axis, Len(pre.shape)) + 1
        b == arg.other
    IN /\ res.kind = "array"
       /\ Len(res.a.shape) = Len(pre.shape)
       /\ \A d \in 1..Len(pre.shape) :
            res.a.shape[d] = IF d = k THEN pre.shape[d] + b.shape[d]
                             ELSE Max2(pre.shape[d], b.shape[d])
       /\ res.a.labels[k].tok = pre.labels[k].tok \o b.labels[k].tok
       /\ \A r \in 1..Prod(pre.shape) :
            res.a.data[Ravel(Unravel(r - 1, pre.shape), res.a.shape) + 1]
              = pre.data[r]
       /\ \A r \in 1..Prod(b.shape) :
            res.a.data[Ravel([Unravel(r - 1, b.shape) EXCEPT
                                ![k] = @ + pre.shape[k]], res.a.shape) + 1]
              = b.data[r]

(***************************************************************************)
(* The way back from an array to a nested mapping, and the mappings of     *)
(* every depth it is tried on.                                             *)
(***************************************************************************)
DictOk(d) == [err |-> "", d |-> d]

DictErr(e) == [err |-> e, d |-> Dict(<<>>, <<>>)]

\* the items of to_dict that are put into out: all of them above the last
\* axis, on the last axis those that are not NaN
ToDictKept(a, items) ==
  SelectSeq(Range(Len(items)), LAMBDA i :
    Len(a.labels) > 1 \/ items[i + 1].d # Leaf(NaN))

\* LabeledArray.to_dict: the values are read as self[i], the keys are the
\* labels of the first axis
RECURSIVE ToDict(_)

ToDictItem(a, i) ==
  The({IF v.kind = "error" THEN DictErr(v.err)
       ELSE IF Len(a.labels) > 1
       THEN (IF v.kind = "array" THEN ToDict(v.a)
             ELSE DictErr("AttributeError"))
       ELSE (IF v.kind = "scalar" THEN DictOk(Leaf(v.v))
             ELSE DictErr("TypeError")) :
         v \in {GetItem(a, <<KInt(i)>>, TRUE)}})

ToDictOut(a, items, kept) ==
  IF \E i \in 1..Len(items) : items[i].err # ""
  THEN DictErr(items[CHOOSE i \in 1..Len(items) :
                       /\ items[i].err # ""
                       /\ \A j \in 1..(i - 1) : items[j].err = ""].err)
  ELSE DictOk(Dict(SeqOf(Len(kept), LAMBDA k : a.labels[1].tok[kept[k] + 1]),
                   SeqOf(Len(kept), LAMBDA k : items[kept[k] + 1].d)))

ToDict(a) ==
  The({ToDictOut(a, items, ToDictKept(a, items)) :
         items \in {SeqOf(a.shape[1], LAMBDA i : ToDictItem(a, i - 1))}})

RDict(t) ==
  IF t.err # "" THEN RErr(t.err)
  ELSE [kind |-> "dict", a |-> Arr(<<>>, <<>>, <<t.d>>), v |-> 0, err |-> ""]

\* a leaf value that tells the path p (tokens) it stands under
RECURSIVE PathValue(_)
PathValue(p) ==
  IF p = <<>> THEN 0
  ELSE PathValue(SubSeq(p, 1, Len(p) - 1)) * (MaxExt + 1) + TokenIndex(p[Len(p)])

\* mappings of depth 1, and of depth 2 with dicts that may differ in their
\* keys and in the order of their keys
ShallowMappings ==
  {Dict(o, SeqOf(Len(o), LAMBDA i : Leaf(PathValue(<<o[i]>>)))) : o \in KeyOrders}
  \cup {Dict(o, SeqOf(Len(o), LAMBDA i :
               Dict(inner[i], SeqOf(Len(inner[i]), LAMBDA j :
                 Leaf(PathValue(<<o[i], inner[i][j]>>)))))) :
          o \in KeyOrders, inner \in [1..MaxExt -> KeyOrders]}

\* res = LabeledArray.from_dict(m), for mappings of depth 1 to 3
DoFromMapping ==
  /\ Idle /\ arr = NoArr
  /\ \E m \in Mappings \cup ShallowMappings :
       /\ res' = FromDict(m)
       /\ origin' = m
  /\ op' = Op("from_dict", <<>>, FALSE, 0, <<>>, <<>>)
  /\ UNCHANGED <<arr, pre, gen, path, arg>>

\* res = arr.to_dict()
DoToDict ==
  /\ Idle /\ arr # NoArr
  /\ res' = RDict(ToDict(arr))
  /\ op' = Op("to_dict", <<>>, FALSE, 0, <<>>, <<>>)
  /\ pre' = arr
  /\ UNCHANGED <<arr, gen, origin, path, arg>>

MappingNext ==
  \/ DoFromMapping
  \/ UseConstructed
  \/ DoToDict

MappingSpec == Init /\ [][MappingNext]_vars

(***************************************************************************)
(* Properties of the Nested-Mapping Bridge.                                *)
(***************************************************************************)
\* the label tuple of the cell at the row-major position r of a
LabelTuple(a, r) ==
  SeqOf(Len(a.shape), LAMBDA d : a.labels[d].tok[Unravel(r - 1, a.shape)[d] + 1])

\* C23: from_dict of a nested mapping M yields a LabeledArray whose Label
\* Set at each depth is the union, in first-seen order, of the keys seen at
\* that depth, whose shape is the tuple of the Label Set sizes, and whose
\* buffer holds M's value at the position named by each present key path
\* and NaN at every absent path.
C23_FromDictPlacesByKey ==
  op.name = "from_dict" =>
    /\ res.kind = "array"
    /\ SeqOf(Len(res.a.labels), LAMBDA d : res.a.labels[d].tok)
         = InnerAllKeys(origin, <<>>, 0)
    /\ res.a.shape = SeqOf(Len(res.a.labels), LAMBDA d : Len(res.a.labels[d].tok))
    /\ Len(res.a.data) = Prod(res.a.shape)
    /\ \A r \in 1..Prod(res.a.shape) :
         res.a.data[r] = IF HoldsPath(origin, LabelTuple(res.a, r))
                         THEN SubMapping(origin, LabelTuple(res.a, r)).v
                         ELSE NaN

\* the key paths a mapping of the model can hold
KeyPaths == SeqsUpTo({Tokens[i] : i \in 1..MaxExt}, 3) \ {<<>>}

\* the mapping to_dict returned
Returned == res.a.labels[1]

\* C24: for any nested mapping M with scalar leaves (ragged branches and
\* differing key sets included) to_dict(from_dict(M)) reconstructs M: every
\* key path of M maps to the same value, and no key path absent from M
\* appears in the result.
C24_RoundTrip ==
  /\ op.name = "from_dict" => res.kind = "array"
  /\ op.name = "to_dict" =>
       /\ res.kind = "dict"
       /\ \A p \in KeyPaths :
            /\ HoldsPath(Returned, p) <=> HoldsPath(origin, p)
            /\ HoldsPath(origin, p) =>
                 SubMapping(Returned, p).leaf = SubMapping(origin, p).leaf
            /\ (HoldsPath(origin, p) /\ SubMapping(origin, p).leaf) =>
                 SubMapping(Returned, p).v = SubMapping(origin, p).v

\* C25: equality of two LabeledArrays always yields a boolean: a == b is
\* true exactly when the buffers are equal under NaN-aware comparison and
\* every Label Set of a equals the corresponding Label Set of b, also for
\* separately constructed arrays, and a != b is its negation.
C25_EqIsStructural ==
  op.name = "eq" =>
    /\ res.kind = "bool"
    /\ (res.v = 1) <=>
         (arg.ne # (/\ pre.shape = arg.other.shape
                    /\ pre.data = arg.other.data
                    /\ pre.labels = arg.other.labels))

\* the receiver was transposed, or two of its axes were swapped
PermuteCase ==
  \/ op.name = "T"
  \/ /\ op.name = "swapaxes"
     /\ PyInRange(arg.axis1, Len(pre.shape))
     /\ PyInRange(arg.axis2, Len(pre.shape))

\* the axis of the receiver that became axis d of the result
FromAxis(d) ==
  LET n == Len(pre.shape)
      i == PyIndex(arg.axis1, n) + 1
      j == PyIndex(arg.axis2, n) + 1
  IN IF op.name = "T" THEN n + 1 - d
     ELSE IF d = i THEN j ELSE IF d = j THEN i ELSE d

\* the same operation applied to its own result
Again ==
  IF op.name = "T" THEN Transpose(res.a)
  ELSE Swapaxes(res.a, arg.axis1, arg.axis2)

\* C26: T and swapaxes permute the buffer axes and the Label Sets by the
\* same permutation: the element under any label tuple of the result is the
\* element under the inversely permuted label tuple of the original, and
\* applying the operation twice gives back the original buffer and labels.
C26_TransposePermutesBoth ==
  PermuteCase =>
    /\ res.kind = "array"
    /\ Len(res.a.shape) = Len(pre.shape)
    /\ \A d \in 1..Len(pre.shape) :
         /\ res.a.shape[d] = pre.shape[FromAxis(d)]
         /\ res.a.labels[d] = pre.labels[FromAxis(d)]
    /\ Len(res.a.data) = Len(pre.data)
    /\ \A r \in 1..Prod(res.a.shape) :
         \E q \in 1..Prod(pre.shape) :
           /\ res.a.data[r] = pre.data[q]
           /\ \A d \in 1..Len(pre.shape) :
                Unravel(r - 1, res.a.shape)[d]
                  = Unravel(q - 1, pre.shape)[FromAxis(d)]
    /\ Again = RArr(pre)

\* two axes of different extents were swapped in an array whose cells
\* differ, so that the buffer had to move
C26_Witness ==
  /\ PermuteCase /\ res.kind = "array"
  /\ res.a.shape # pre.shape
  /\ res.a.data # pre.data

(***************************************************************************)
(* concatenate_arrays called by itself, on up to MaxArrays plain arrays.   *)
(***************************************************************************)
MaxArrays == 3

\* the k-th input of a call: an array of the given shape whose cells tell
\* the input and the position they come from
InputArray(k, shape) ==
  Nd(shape, SeqOf(Prod(shape), LAMBDA r :
       k * Prod(SeqOf(MaxRank, LAMBDA i : MaxExt + 1)) + r - 1))

ConcatInputs ==
  {SeqOf(Len(shapes), LAMBDA k : InputArray(k, shapes[k])) :
     shapes \in SeqsUpTo(AlgebraShapes, MaxArrays) \ {<<>>}}

RNd(nd) ==
  IF nd.err = "hang" THEN RHang
  ELSE IF nd.err # "" THEN RErr(nd.err)
  ELSE RArr(Arr(nd.shape, nd.data, <<>>))

\* res = concatenate_arrays(arrays, axis), axis None (newAxis) or a number
DoConcatenate ==
  /\ Idle /\ arr = NoArr /\ res = RNone
  /\ \E arrays \in ConcatInputs, newAxis \in BOOLEAN,
        axis \in (0 - MaxRank)..(MaxRank - 1) :
       /\ newAxis => axis = 0
       /\ res' = RNd(ConcatenateArrays(arrays, newAxis, axis))
       /\ arg' = [arrays |-> arrays, newAxis |-> newAxis, axis |-> axis]
  /\ op' = Op("concatenate", <<>>, FALSE, 0, <<>>, <<>>)
  /\ UNCHANGED <<arr, pre, gen, origin, path>>

ConcatNext == DoConcatenate

ConcatSpec == Init /\ [][ConcatNext]_vars

(***************************************************************************)
(* Properties of the concatenator.                                         *)
(***************************************************************************)
\* the inputs of the call that are not empty, with the leading axis that
\* axis=None gives them
KeptInputs ==
  SeqOf(Len(SelectSeq(arg.arrays, NonEmpty)), LAMBDA i :
    IF arg.newAxis
    THEN Nd(<<1>> \o SelectSeq(arg.arrays, NonEmpty)[i].shape,
            SelectSeq(arg.arrays, NonEmpty)[i].data)
    ELSE SelectSeq(arg.arrays, NonEmpty)[i])

KeptRank == Len(KeptInputs[1].shape)

\* a call with at least one non-empty input, all non-empty inputs of one
\* rank, and an axis of that rank
ConcatCase ==
  /\ op.name = "concatenate"
  /\ KeptInputs # <<>>
  /\ \A i \in 1..Len(KeptInputs) : Len(KeptInputs[i].shape) = KeptRank
  /\ PyInRange(arg.axis, KeptRank)

\* the concatenation axis (1-based) and the offset of the i-th kept input
ConcatAxis == PyIndex(arg.axis, KeptRank) + 1

ConcatOffset(i) ==
  SumSeq(SeqOf(i - 1, LAMBDA k : KeptInputs[k].shape[ConcatAxis]))

\* where cell r of the i-th kept input is expected in the result
ConcatPlace(i, r) ==
  Ravel([Unravel(r - 1, KeptInputs[i].shape) EXCEPT
           ![ConcatAxis] = @ + ConcatOffset(i)], res.a.shape) + 1

\* C27: concatenate_arrays along an integer axis, or along a new leading
\* axis for axis None, returns an array whose extent on every other
\* dimension is the maximum of the inputs' extents and on the concatenation
\* axis their sum, in which each input's cells stand unchanged at its
\* offset and every other cell is NaN; a negative axis counts from the
\* maximum rank of the inputs.
C27_ConcatenatePads ==
  ConcatCase =>
    /\ res.kind = "array"
    /\ Len(res.a.shape) = KeptRank
    /\ \A d \in 1..KeptRank :
         res.a.shape[d] =
           IF d = ConcatAxis
           THEN SumSeq(SeqOf(Len(KeptInputs), LAMBDA i : KeptInputs[i].shape[d]))
           ELSE MaxSeq(SeqOf(Len(KeptInputs), LAMBDA i : KeptInputs[i].shape[d]))
    /\ Len(res.a.data) = Prod(res.a.shape)
    /\ \A i \in 1..Len(KeptInputs) : \A r \in 1..Prod(KeptInputs[i].shape) :
         res.a.data[ConcatPlace(i, r)] = KeptInputs[i].data[r]
    /\ \A q \in 1..Prod(res.a.shape) :
         res.a.data[q] # NaN =>
           \E i \in 1..Len(KeptInputs) : \E r \in 1..Prod(KeptInputs[i].shape) :
             ConcatPlace(i, r) = q

\* inputs of different extents were concatenated along a negative axis and
\* along a new axis, and cells were padded
C27_Witness ==
  /\ ConcatCase /\ res.kind = "array"
  /\ arg.newAxis \/ arg.axis < 0
  /\ Len(KeptInputs) >= 2
  /\ \E q \in 1..Prod(res.a.shape) : res.a.data[q] = NaN

\* C28: concatenate_arrays drops zero-size inputs wherever they stand, so
\* that the result is the concatenation of the non-empty inputs alone, and
\* raises ValueError when every input is empty, for every axis argument.
C28_EmptyInputsDropped ==
  op.name = "concatenate" =>
    /\ res = RNd(ConcatenateArrays(SelectSeq(arg.arrays, NonEmpty),
                                   arg.newAxis, arg.axis))
    /\ SelectSeq(arg.arrays, NonEmpty) = <<>> => res = RErr("ValueError")

\* an empty input stood between two non-empty ones of another rank, and
\* the call returned their concatenation
C28_Witness ==
  /\ op.name = "concatenate" /\ res.kind = "array"
  /\ Len(arg.arrays) = 3
  /\ NonEmpty(arg.arrays[1]) /\ ~NonEmpty(arg.arrays[2]) /\ NonEmpty(arg.arrays[3])
  /\ Len(arg.arrays[2].shape) # Len(arg.arrays[1].shape)

\* C29: label factoring during reshape never aborts the operation: for
\* every target shape with a matching element count, also when some output
\* index has no component common to all of its label tuples, reshape uses
\* the fallback label and still returns a LabeledArray.
C29_ReshapeNeverAborts ==
  (op.name = "reshape" /\ Prod(op.shape) = Prod(pre.shape)) =>
    res.kind = "array"

\* an operation that returns a derived array was applied to the receiver
DerivedCase ==
  op.name \in {"dropna", "appended", "prepend_labels", "T", "swapaxes"}

\* C30: every operation that returns a derived LabeledArray leaves the
\* receiver's shape and Label Sets unchanged, and no later label change on
\* one array is visible through the other.
C30_ReceiverUnchanged ==
  DerivedCase =>
    /\ arr.shape = pre.shape
    /\ Len(arr.labels) = Len(pre.labels)
    /\ \A d \in 1..Len(pre.labels) :
         /\ arr.labels[d].tok = pre.labels[d].tok
         /\ arr.labels[d].kind = pre.labels[d].kind

====
